---- MODULE Spec2Model ----
(***************************************************************************)
(* A model of the parser-combinator core of parsy (src/parsy/__init__.py). *)
(*                                                                         *)
(* A Python str is a sequence of one-character strings, so that a parser   *)
(* can slice and compare the stream.  A Python value is a tagged record    *)
(* [t |-> type, v |-> payload].  A Parser is the tree of the constructor   *)
(* calls that built it (its closure: the wrapped function and the values   *)
(* it captured); Call(p, state) runs the wrapped function of p as          *)
(* Parser.__call__ does.                                                   *)
(***************************************************************************)
EXTENDS Integers, Sequences, FiniteSets, TLC

VARIABLES parser, stream, op, index, result, outcome, locals

vars == <<parser, stream, op, index, result, outcome, locals>>

-----------------------------------------------------------------------------
(* Bounds of the model. *)

\* Longest input stream of the general specification.
MaxLen == 3
\* Largest min / max given to times, until and sep_by.
MaxCount == 2
\* Longest run of items in the streams of the repetition specifications.
MaxRun == 4
\* Longest list of words joined into a stream.
MaxItems == 3
\* Most iterations of a repetition that is run iteration by iteration.
MaxIter == MaxRun + 2
\* Deepest nesting of the nested integer lists.
MaxDepth == 2

-----------------------------------------------------------------------------
(* Python values. *)

None == [t |-> "none", v |-> <<>>]
Str(s) == [t |-> "str", v |-> s]
IntVal(n) == [t |-> "int", v |-> n]
List(vs) == [t |-> "list", v |-> vs]
Tuple(vs) == [t |-> "tuple", v |-> vs]

\* int | float | None, the type of the max of times, until and sep_by.
Fin(n) == [kind |-> "int", n |-> n]
Inf == [kind |-> "inf", n |-> 0]
NoMax == [kind |-> "none", n |-> 0]

\* times < max, times >= max, max - 1 and max == 0 on int | float("inf").
NumLess(n, max) == max.kind = "inf" \/ n < max.n
NumGeq(n, max) == ~NumLess(n, max)
NumLeq(n, max) == max.kind = "inf" \/ n <= max.n
NumDec(max) == IF max.kind = "inf" THEN max ELSE Fin(max.n - 1)
NumIsZero(max) == max.kind = "int" /\ max.n = 0

Min2(a, b) == IF a < b THEN a ELSE b

\* stream[a:b] for 0 <= a.
Slice(s, a, b) == SubSeq(s, a + 1, Min2(b, Len(s)))

\* str(n) for a small non-negative int.
DigitChar(d) ==
  CASE d = 0 -> "0" [] d = 1 -> "1" [] d = 2 -> "2" [] d = 3 -> "3"
    [] d = 4 -> "4" [] d = 5 -> "5" [] d = 6 -> "6" [] d = 7 -> "7"
    [] d = 8 -> "8" [] d = 9 -> "9"

RECURSIVE IntStr(_)
IntStr(n) == IF n < 10 THEN <<DigitChar(n)>> ELSE IntStr(n \div 10) \o <<DigitChar(n % 10)>>

\* int(s) for a string of ASCII digits.
DigitVal(c) == CHOOSE d \in 0 .. 9 : DigitChar(d) = c

RECURSIVE StrInt(_)
StrInt(s) ==
  IF Len(s) = 0 THEN 0 ELSE 10 * StrInt(SubSeq(s, 1, Len(s) - 1)) + DigitVal(s[Len(s)])

\* format(max) for int | float("inf").
NumStr(max) == IF max.kind = "inf" THEN <<"i", "n", "f">> ELSE IntStr(max.n)

\* "".join(strs) for a list of str values.
RECURSIVE Join(_, _)
Join(strs, sep) ==
  IF Len(strs) = 0 THEN <<>>
  ELSE IF Len(strs) = 1 THEN strs[1]
  ELSE strs[1] \o sep \o Join(Tail(strs), sep)

-----------------------------------------------------------------------------
(* Characters and the functions users pass to the library. *)

UpperOf ==
  [c \in {"a", "b", "c", "t"} |->
     CASE c = "a" -> "A" [] c = "b" -> "B" [] c = "c" -> "C" [] c = "t" -> "T"]
LowerChar(c) == IF \E l \in DOMAIN UpperOf : UpperOf[l] = c
                THEN CHOOSE l \in DOMAIN UpperOf : UpperOf[l] = c
                ELSE c

IsAlpha(c) ==
  c \in {"a", "b", "c", "d", "g", "o", "s", "t", "x", "y", "z", "A", "B", "C", "T"}
IsDigit(c) == c \in {"0", "1", "2", "3", "4", "5", "6", "7", "8", "9"}

\* noop and lambda s: s.lower(), the transforms of string().
noop(val) == val
\* str.lower.  Characters outside ASCII are written by their code point: the
\* lower case of U+0130 is the two characters i and U+0307.
Lowered(c) == IF c = "U+0130" THEN <<"i", "U+0307">> ELSE <<LowerChar(c)>>
RECURSIVE lower(_)
lower(s) == IF s = <<>> THEN <<>> ELSE Lowered(Head(s)) \o lower(Tail(s))

Transform(transform, s) ==
  IF transform = "lower" THEN lower(s) ELSE noop(s)

\* The predicates given to test_char.
CharFunc(func, c) ==
  CASE func.name = "isalpha" -> IsAlpha(c)
    [] func.name = "isdigit" -> IsDigit(c)
    [] func.name = "any" -> TRUE
    [] func.name = "in" -> \E k \in DOMAIN func.string : func.string[k] = c
    [] func.name = "eq" -> func.char = c

\* The pure functions given to map and combine.
RECURSIVE StrsOf(_)
StrsOf(vs) == IF Len(vs) = 0 THEN <<>> ELSE <<Head(vs).v>> \o StrsOf(Tail(vs))

MapFn(map_fn, value) ==
  CASE map_fn.name = "fst" -> value.v[1]
    [] map_fn.name = "snd" -> value.v[2]
    [] map_fn.name = "list" -> List(<<value>>)
    [] map_fn.name = "tuple" -> Tuple(<<value>>)
    [] map_fn.name = "join" -> Str(Join(StrsOf(value.v), <<>>))
    [] map_fn.name = "optional" -> IF Len(value.v) > 0 THEN value.v[1] ELSE map_fn.default
    [] map_fn.name = "tag" -> Tuple(<<Str(map_fn.tag), value>>)
    [] map_fn.name = "int" -> IntVal(StrInt(value.v))

\* combine_fn(*value): operator.add on the two members of a tuple.
CombineFn(combine_fn, value) ==
  CASE combine_fn = "add" -> [t |-> value.v[1].t, v |-> value.v[1].v \o value.v[2].v]

-----------------------------------------------------------------------------
(* ParseState and Result. *)

ParseState(s, i) == [stream |-> s, index |-> i]
start(s) == ParseState(s, 0)
at(state, i) == ParseState(state.stream, i)

Result(status, i, value, furthest, expected) ==
  [status |-> status, index |-> i, value |-> value,
   furthest |-> furthest, expected |-> expected]

Result_success(i, value) == Result(TRUE, i, value, -1, {})
Result_failure(i, expected) == Result(FALSE, -1, None, i, {expected})

\* The None given to aggregate where no attempt has been made yet.
NoResult == [none |-> TRUE]
IsNone(r) == DOMAIN r = {"none"}

\* aggregate with the labels of the other Result dropped on a tie.
aggregate_no_union(self, other) ==
  IF IsNone(other) THEN self
  ELSE IF self.furthest >= other.furthest THEN self
  ELSE Result(self.status, self.index, self.value, other.furthest, other.expected)

\* aggregate keeping the nearer of the two failure positions.
aggregate_nearest(self, other) ==
  IF IsNone(other) THEN self
  ELSE IF self.furthest < other.furthest THEN self
  ELSE Result(self.status, self.index, self.value, other.furthest, other.expected)

\* aggregate taking the further position of the other Result but not its labels.
aggregate_own_labels(self, other) ==
  IF IsNone(other) THEN self
  ELSE IF self.furthest > other.furthest THEN self
  ELSE IF self.furthest = other.furthest
  THEN Result(self.status, self.index, self.value, self.furthest,
              self.expected \cup other.expected)
  ELSE Result(self.status, self.index, self.value, other.furthest, self.expected)

aggregate(self, other) ==
  IF IsNone(other) THEN self
  ELSE IF self.furthest > other.furthest THEN self
  ELSE IF self.furthest = other.furthest
  THEN Result(self.status, self.index, self.value, self.furthest,
              self.expected \cup other.expected)
  ELSE Result(self.status, self.index, self.value, other.furthest, other.expected)

-----------------------------------------------------------------------------
(* Line and column of a position. *)

\* str.count(sub, start, end) for a sub of one character.
RECURSIVE count(_, _, _, _)
count(s, sub, start_, end) ==
  IF start_ >= Min2(end, Len(s)) THEN 0
  ELSE (IF s[start_ + 1] = sub THEN 1 ELSE 0) + count(s, sub, start_ + 1, end)

\* str.rfind(sub, start, end) for a sub of one character: the highest position
\* of sub in s[start:end], or -1.
RECURSIVE rfind(_, _, _, _)
rfind(s, sub, start_, end) ==
  IF Min2(end, Len(s)) <= start_ THEN -1
  ELSE IF s[Min2(end, Len(s))] = sub THEN Min2(end, Len(s)) - 1
  ELSE rfind(s, sub, start_, Min2(end, Len(s)) - 1)

\* A call of line_info_at that returns (line, col), or raises.
LineCol(line, col) == [kind |-> "return", value |-> Tuple(<<IntVal(line), IntVal(col)>>)]
LineError(type) == [kind |-> type, value |-> None]

\* line_info_at counting the columns from 1.
line_info_at_one_based(state) ==
  IF state.index > Len(state.stream) THEN LineError("ValueError")
  ELSE LET line == count(state.stream, "\n", 0, state.index)
           last_nl == rfind(state.stream, "\n", 0, state.index)
           col == state.index - last_nl
       IN  LineCol(line, col)

line_info_at(state) ==
  IF state.index > Len(state.stream) THEN LineError("ValueError")
  ELSE LET line == count(state.stream, "\n", 0, state.index)
           last_nl == rfind(state.stream, "\n", 0, state.index)
           col == state.index - (last_nl + 1)
       IN  LineCol(line, col)

-----------------------------------------------------------------------------
(* Labels: the strings the library puts in Result.expected. *)

EOF_LABEL == <<"E", "O", "F">>
AtMostLabel(max) ==
  <<"a", "t", " ", "m", "o", "s", "t", " ">> \o NumStr(max)
    \o <<" ", "i", "t", "e", "m", "s">>
AtLeastLabel(min, n) ==
  <<"a", "t", " ", "l", "e", "a", "s", "t", " ">> \o IntStr(min)
    \o <<" ", "i", "t", "e", "m", "s", ";", " ", "g", "o", "t", " ">> \o IntStr(n)
    \o <<" ", "i", "t", "e", "m", "(", "s", ")">>
NotFoundLabel ==
  <<"d", "i", "d", " ", "n", "o", "t", " ", "f", "i", "n", "d", " ",
    "o", "t", "h", "e", "r", " ", "p", "a", "r", "s", "e", "r">>
\* ', '.join(expected): the labels of a set in the order the set yields them.
RECURSIVE JoinedLabels(_)
JoinedLabels(expected) ==
  IF expected = {} THEN <<>>
  ELSE LET label == CHOOSE l \in expected : TRUE IN
       IF expected = {label} THEN label
       ELSE label \o <<",", " ">> \o JoinedLabels(expected \ {label})
\* f"'{field_name}': {', '.join(result.expected)}"
FieldFailure(field_name, expected) ==
  <<"'">> \o field_name \o <<"'", ":", " ">> \o JoinedLabels(expected)
\* f"Any of: {', '.join(failures)}"
AnyOfLabel(failures) ==
  <<"A", "n", "y", " ", "o", "f", ":", " ">> \o Join(failures, <<",", " ">>)
AnyLabel == <<"a", "n", "y", " ", "c", "h", "a", "r", "a", "c", "t", "e", "r">>
LetterLabel == <<"a", " ", "l", "e", "t", "t", "e", "r">>
DigitLabel == <<"a", " ", "d", "i", "g", "i", "t">>

-----------------------------------------------------------------------------
(* Parser constructors: each returns the closure it builds. *)

string2(s, transform) == [op |-> "string", s |-> s, transform |-> transform]
string(s) == string2(s, "noop")
test_char(func, description) == [op |-> "test_char", func |-> func, description |-> description]
eof == [op |-> "eof"]
success(val) == [op |-> "success", val |-> val]
fail(expected) == [op |-> "fail", expected |-> expected]

any_char == test_char([name |-> "any"], AnyLabel)
letter == test_char([name |-> "isalpha"], LetterLabel)
digit == test_char([name |-> "isdigit"], DigitLabel)

bind(self, bind_fn) == [op |-> "bind", self |-> self, bind_fn |-> bind_fn]
\* self.bind(lambda res: success(map_fn(res)))
map(self, map_fn) == bind(self, [fn |-> "map", map_fn |-> map_fn])
\* self.bind(lambda value: success(combine_fn(*value)))
combine(self, combine_fn) == bind(self, [fn |-> "combine", combine_fn |-> combine_fn])

__or__(self, other) == [op |-> "or", self |-> self, other |-> other]
__and__(self, other) == [op |-> "and", self |-> self, other |-> other]
\* (self & other).combine(operator.add)
__add__(self, other) == combine(__and__(self, other), "add")

concat(self) == map(self, [name |-> "join"])
then(self, other) == map(__and__(self, other), [name |-> "snd"])
skip(self, other) == map(__and__(self, other), [name |-> "fst"])
list(self) == map(self, [name |-> "list"])
tag(self, name) == map(self, [name |-> "tag", tag |-> name])

times(self, min, max) ==
  [op |-> "times", self |-> self, min |-> min,
   the_max |-> IF max.kind = "none" THEN Fin(min) ELSE max]
many(self) == times(self, 0, Inf)
at_most(self, n) == times(self, 0, Fin(n))
at_least(self, n) == times(self, n, Inf)
optional(self, default) ==
  map(times(self, 0, Fin(1)), [name |-> "optional", default |-> default])

until(self, other, min, max) ==
  [op |-> "until", self |-> self, other |-> other, min |-> min, max |-> max]

\* sep_by with sep & self for sep >> self: the separators stay in the list.
sep_by_keeping(self, sep, min, max) ==
  LET zero_times == success(List(<<>>))
      res == __add__(list(self), times(__and__(sep, self), min - 1, NumDec(max)))
  IN  IF NumIsZero(max) THEN zero_times
      ELSE IF min = 0 THEN __or__(res, zero_times)
      ELSE res

\* sep_by taking the separator before it looks for the item: sep.then(self) is
\* replaced by a separator that is skipped on its own.
sep_by_trailing(self, sep, min, max) ==
  LET zero_times == success(List(<<>>))
      res == __add__(list(self),
                     times(__or__(then(sep, self), then(sep, success(None))),
                           min - 1, NumDec(max)))
  IN  IF NumIsZero(max) THEN zero_times
      ELSE IF min = 0 THEN __or__(res, zero_times)
      ELSE res

sep_by(self, sep, min, max) ==
  LET zero_times == success(List(<<>>))
      res == __add__(list(self), times(then(sep, self), min - 1, NumDec(max)))
  IN  IF NumIsZero(max) THEN zero_times
      ELSE IF min = 0 THEN __or__(res, zero_times)
      ELSE res

desc(self, description) == [op |-> "desc", self |-> self, description |-> description]
should_fail(self, description) ==
  [op |-> "should_fail", self |-> self, description |-> description]
peek(p) == [op |-> "peek", parser |-> p]

\* self.map(lambda value: (value,))
tuple(self) == map(self, [name |-> "tuple"])
\* self.bind(lambda self_value: other.bind(lambda other_value:
\*   success((*self_value, other_value))))
append(self, other) == bind(self, [fn |-> "append", other |-> other])

\* The for loop of seq: parser = parser.append(p) for the parsers from the k-th.
RECURSIVE seq_for(_, _, _)
seq_for(parser_, remainder, k) ==
  IF k > Len(remainder) THEN parser_
  ELSE seq_for(append(parser_, remainder[k]), remainder, k + 1)

\* A call that returns a parser, or raises before there is one.
Built(parser_) == [kind |-> "return", parser |-> parser_, type |-> "none"]
NotBuilt(type) == [kind |-> "raise", parser |-> [op |-> "none"], type |-> type]

\* seq without its check of the arguments: no parsers give the empty tuple.
seq_unchecked(parsers) ==
  IF parsers = <<>> THEN Built(success(Tuple(<<>>)))
  ELSE Built(seq_for(tuple(Head(parsers)), Tail(parsers), 1))

\* seq(*parsers)
seq(parsers) ==
  IF parsers = <<>> THEN NotBuilt("ValueError")
  ELSE Built(seq_for(tuple(Head(parsers)), Tail(parsers), 1))

\* take(parser) on the field field_name of a dataclass, and gather_perm of the
\* dataclass, which is kept as the list of its fields in the declared order.
take(field_name, p) == [name |-> field_name, parser |-> p]
gather_perm(datatype) == [op |-> "gather_perm", datatype |-> datatype]

\* regex(pattern): the compiled pattern is kept as its text.
regex(pattern) == [op |-> "regex", pattern |-> pattern]

\* forward_parser(fn): fn names the generator function, called at each invocation.
forward_parser(fn) == [op |-> "forward", fn |-> fn]

\* sorted(strings, key=len, reverse=True): longest first, strings of one length in
\* the order they were given.
RECURSIVE insert_by_len(_, _)
insert_by_len(s, strings) ==
  IF Len(strings) = 0 THEN <<s>>
  ELSE IF Len(Head(strings)) <= Len(s) THEN <<s>> \o strings
  ELSE <<Head(strings)>> \o insert_by_len(s, Tail(strings))

RECURSIVE sorted_by_len(_)
sorted_by_len(strings) ==
  IF Len(strings) = 0 THEN <<>>
  ELSE insert_by_len(Head(strings), sorted_by_len(Tail(strings)))

\* reduce(operator.or_, parsers) with the first parser as the initial value.
RECURSIVE reduce_or(_, _)
reduce_or(acc, parsers) ==
  IF Len(parsers) = 0 THEN acc
  ELSE reduce_or(__or__(acc, Head(parsers)), Tail(parsers))

\* string_from without the sort: the alternatives in the order given.
string_from_unsorted(strings, transform) ==
  LET parsers == [k \in DOMAIN strings |-> string2(strings[k], transform)]
  IN  reduce_or(Head(parsers), Tail(parsers))

string_from(strings, transform) ==
  LET ordered == sorted_by_len(strings)
      parsers == [k \in DOMAIN ordered |-> string2(ordered[k], transform)]
  IN  reduce_or(Head(parsers), Tail(parsers))

\* digits and parser of test_recursive_parser; _parser yields parser.
Digits1 == <<"[", "0", "-", "9", "]", "+">>
\* The pattern [\d] of test_seq.
Digit1 == <<"[", "\\", "d", "]">>
digits == map(regex(Digits1), [name |-> "int"])
_parser == forward_parser("_parser")
recursive_parser ==
  __or__(digits,
         skip(then(string(<<"(">>), sep_by(_parser, string(<<" ">>), 0, Inf)),
              string(<<")">>)))

\* next(fn()): the parser the generator function yields.
Yielded(fn) == CASE fn = "_parser" -> recursive_parser

\* Parser(wrapped_fn) for a function the client wrote: its body applies the
\* parsers of body in turn with s.apply and ends with the statement last,
\* "assert False" or "return s.success(None)".
Parser(wrapped_fn) == [op |-> "Parser", wrapped_fn |-> wrapped_fn]

\* bind_fn(value): the parser a bind function returns.
BindFn(bind_fn, value) ==
  CASE bind_fn.fn = "map" -> success(MapFn(bind_fn.map_fn, value))
    [] bind_fn.fn = "combine" -> success(CombineFn(bind_fn.combine_fn, value))
    [] bind_fn.fn = "const" -> bind_fn.parser
    [] bind_fn.fn = "string" -> string(value.v)
    [] bind_fn.fn = "append" -> bind(bind_fn.other, [fn |-> "appended", self_value |-> value])
    [] bind_fn.fn = "appended" -> success(Tuple(Append(bind_fn.self_value.v, value)))

-----------------------------------------------------------------------------
(* The wrapped functions, and Parser.__call__. *)

RECURSIVE Call(_, _)

\* string_parser returning the text it matched.
string_parser_matched(s, transform, state) ==
  LET slen == Len(s) IN
  IF Transform(transform, Slice(state.stream, state.index, state.index + slen))
       = Transform(transform, s)
  THEN Result_success(state.index + slen,
                      Str(Slice(state.stream, state.index, state.index + slen)))
  ELSE Result_failure(state.index, s)

string_parser(s, transform, state) ==
  LET slen == Len(s) IN
  IF Transform(transform, Slice(state.stream, state.index, state.index + slen))
       = Transform(transform, s)
  THEN Result_success(state.index + slen, Str(s))
  ELSE Result_failure(state.index, s)

test_char_parser(func, description, state) ==
  IF state.index < Len(state.stream) /\ CharFunc(func, state.stream[state.index + 1])
  THEN Result_success(state.index + 1, Str(<<state.stream[state.index + 1]>>))
  ELSE Result_failure(state.index, description)

\* eof with the comparison turned round.
eof_parser_leq(state) ==
  IF state.index <= Len(state.stream)
  THEN Result_success(state.index, None)
  ELSE Result_failure(state.index, EOF_LABEL)

eof_parser(state) ==
  IF state.index >= Len(state.stream)
  THEN Result_success(state.index, None)
  ELSE Result_failure(state.index, EOF_LABEL)

bound_parser(self, bind_fn, state) ==
  LET r == Call(self, state) IN
  IF r.status
  THEN aggregate(Call(BindFn(bind_fn, r.value), at(state, r.index)), r)
  ELSE r

\* times_loop with "while times <= the_max".
RECURSIVE times_loop_leq(_, _, _, _, _, _, _)
times_loop_leq(self, min, the_max, state, values, n, res) ==
  IF NumLess(n, the_max) \/ (the_max.kind = "int" /\ n = the_max.n)
  THEN LET r == aggregate(Call(self, state), res) IN
       IF r.status
       THEN times_loop_leq(self, min, the_max, at(state, r.index),
                           Append(values, r.value), n + 1, r)
       ELSE IF n >= min
       THEN aggregate(Result_success(state.index, List(values)), r)
       ELSE r
  ELSE aggregate(Result_success(state.index, List(values)), res)

\* times_loop with "elif times > min".
RECURSIVE times_loop_gt(_, _, _, _, _, _, _)
times_loop_gt(self, min, the_max, state, values, n, res) ==
  IF NumLess(n, the_max)
  THEN LET r == aggregate(Call(self, state), res) IN
       IF r.status
       THEN times_loop_gt(self, min, the_max, at(state, r.index),
                          Append(values, r.value), n + 1, r)
       ELSE IF n > min
       THEN aggregate(Result_success(state.index, List(values)), r)
       ELSE r
  ELSE aggregate(Result_success(state.index, List(values)), res)

\* The while loop of times_parser, entered with the locals state, values, times
\* and result.
RECURSIVE times_loop(_, _, _, _, _, _, _)
times_loop(self, min, the_max, state, values, n, res) ==
  IF NumLess(n, the_max)
  THEN LET r == aggregate(Call(self, state), res) IN
       IF r.status
       THEN times_loop(self, min, the_max, at(state, r.index),
                       Append(values, r.value), n + 1, r)
       ELSE IF n >= min
       THEN aggregate(Result_success(state.index, List(values)), r)
       ELSE r
  ELSE aggregate(Result_success(state.index, List(values)), res)

times_parser(self, min, the_max, state) ==
  times_loop(self, min, the_max, state, <<>>, 0, NoResult)

\* until_loop with "if times > max".
RECURSIVE until_loop_gt(_, _, _, _, _, _, _)
until_loop_gt(self, other, min, max, state, values, n) ==
  LET res == Call(other, state) IN
  IF res.status /\ n >= min
  THEN Result_success(state.index, List(values))
  ELSE IF max.kind = "int" /\ n > max.n
  THEN Result_failure(state.index, AtMostLabel(max))
  ELSE LET r == Call(self, state) IN
       IF r.status
       THEN until_loop_gt(self, other, min, max, at(state, r.index),
                          Append(values, r.value), n + 1)
       ELSE IF n >= min
       THEN Result_failure(state.index, NotFoundLabel)
       ELSE Result_failure(state.index, AtLeastLabel(min, n))

\* The while loop of until_parser, entered with the locals state, values and times.
RECURSIVE until_loop(_, _, _, _, _, _, _)
until_loop(self, other, min, max, state, values, n) ==
  LET res == Call(other, state) IN
  IF res.status /\ n >= min
  THEN Result_success(state.index, List(values))
  ELSE IF NumGeq(n, max)
  THEN Result_failure(state.index, AtMostLabel(max))
  ELSE LET r == Call(self, state) IN
       IF r.status
       THEN until_loop(self, other, min, max, at(state, r.index),
                       Append(values, r.value), n + 1)
       ELSE IF n >= min
       THEN Result_failure(state.index, NotFoundLabel)
       ELSE Result_failure(state.index, AtLeastLabel(min, n))

until_parser(self, other, min, max, state) ==
  until_loop(self, other, min, max, state, <<>>, 0)

\* desc_parser reporting its label where the child failed.
desc_parser_at_furthest(self, description, state) ==
  LET r == Call(self, state) IN
  IF r.status THEN r ELSE Result_failure(r.furthest, description)

desc_parser(self, description, state) ==
  LET r == Call(self, state) IN
  IF r.status THEN r ELSE Result_failure(state.index, description)

\* fail_parser succeeding at the position where the child failed.
fail_parser_at_furthest(self, description, state) ==
  LET res == Call(self, state) IN
  IF res.status
  THEN Result_failure(state.index, description)
  ELSE Result_success(res.furthest, [t |-> "result", v |-> res])

fail_parser(self, description, state) ==
  LET res == Call(self, state) IN
  IF res.status
  THEN Result_failure(state.index, description)
  ELSE Result_success(state.index, [t |-> "result", v |-> res])

\* alt_parser preferring the alternative that matches more input.
alt_parser_longest(self, other, state) ==
  LET result1 == Call(self, state)
      result2 == Call(other, state)
  IN  IF result1.status /\ result2.status
      THEN (IF result2.index > result1.index THEN result2 ELSE result1)
      ELSE IF result1.status THEN result1
      ELSE aggregate(result2, result1)

\* alt_parser running the second alternative from where the first one failed.
alt_parser_no_backtrack(self, other, state) ==
  LET result1 == aggregate(Call(self, state), NoResult) IN
  IF result1.status THEN result1
  ELSE aggregate(Call(other, at(state, result1.furthest)), result1)

alt_parser(self, other, state) ==
  LET result1 == aggregate(Call(self, state), NoResult) IN
  IF result1.status THEN result1
  ELSE aggregate(Call(other, state), result1)

\* and_parser returning the pair without the failures met on the way to it.
and_parser_forgetful(self, other, state) ==
  LET self_result == Call(self, state) IN
  IF ~self_result.status THEN self_result
  ELSE LET other_result ==
             aggregate(Call(other, ParseState(state.stream, self_result.index)),
                       self_result)
       IN  IF ~other_result.status THEN other_result
           ELSE Result_success(other_result.index,
                               Tuple(<<self_result.value, other_result.value>>))

and_parser(self, other, state) ==
  LET self_result == Call(self, state) IN
  IF ~self_result.status THEN self_result
  ELSE LET other_result ==
             aggregate(Call(other, ParseState(state.stream, self_result.index)),
                       self_result)
       IN  IF ~other_result.status THEN other_result
           ELSE aggregate(
                  Result_success(other_result.index,
                                 Tuple(<<self_result.value, other_result.value>>)),
                  other_result)

\* peek_parser returning the child's Result, next position included.
peek_parser_consuming(p, state) == Call(p, state)

peek_parser(p, state) ==
  LET r == Call(p, state) IN
  IF r.status THEN Result_success(state.index, r.value) ELSE r

\* datatype(**parsed_fields): the values in the declared order of the fields.
Instance(parsed_fields) == [t |-> "record", v |-> parsed_fields]

\* The for loop of gather_perm over the parsers that are left, from the k-th:
\* the first one that succeeds on state, or the failures of all of them.
RECURSIVE perm_for(_, _, _, _, _)
perm_for(datatype, parsers, k, state, failures) ==
  IF k > Len(parsers) THEN [matched |-> FALSE, failures |-> failures]
  ELSE LET field == datatype[parsers[k]]
           res == Call(field.parser, state)
       IN  IF ~res.status
           THEN perm_for(datatype, parsers, k + 1, state,
                         Append(failures, FieldFailure(field.name, res.expected)))
           ELSE [matched |-> TRUE, k |-> k, result |-> res]

\* The while loop of gather_perm; parsers holds the positions of the fields
\* that are still to be parsed, in the declared order.
RECURSIVE perm_while(_, _, _, _)
perm_while(datatype, parsers, state, parsed_fields) ==
  IF parsers = <<>> THEN Result_success(state.index, Instance(parsed_fields))
  ELSE LET found == perm_for(datatype, parsers, 1, state, <<>>) IN
       IF found.matched
       THEN perm_while(datatype,
                       SubSeq(parsers, 1, found.k - 1)
                         \o SubSeq(parsers, found.k + 1, Len(parsers)),
                       at(state, found.result.index),
                       [parsed_fields EXCEPT ![parsers[found.k]] = found.result.value])
       ELSE Result_failure(state.index, AnyOfLabel(found.failures))

perm_parser(datatype, state) ==
  perm_while(datatype, [i \in 1 .. Len(datatype) |-> i], state,
             [i \in 1 .. Len(datatype) |-> None])

\* exp.match(stream, index).end(), or -1 where there is no match.
RECURSIVE digits_end(_, _)
digits_end(stream_, i) ==
  IF i < Len(stream_) /\ IsDigit(stream_[i + 1]) THEN digits_end(stream_, i + 1) ELSE i

re_match_end(pattern, stream_, i) ==
  CASE pattern = Digits1 -> IF digits_end(stream_, i) > i THEN digits_end(stream_, i) ELSE -1
    [] pattern = Digit1 -> IF i < Len(stream_) /\ IsDigit(stream_[i + 1]) THEN i + 1 ELSE -1
    [] Len(pattern) = 1 -> IF i < Len(stream_) /\ stream_[i + 1] = pattern[1] THEN i + 1 ELSE -1

regex_parser(pattern, state) ==
  LET end == re_match_end(pattern, state.stream, state.index) IN
  IF end >= 0
  THEN Result_success(end, Str(Slice(state.stream, state.index, end)))
  ELSE Result_failure(state.index, pattern)

\* generated with the target replaced by the parser digits: no recursion.
generated_flat(fn, state) == Call(digits, state)

generated(fn, state) ==
  LET parser_ == Yielded(fn)
      result_ == Call(parser_, state)
  IN  result_

\* Parser.__call__: run the wrapped function of the parser.
Call(p, state) ==
  CASE p.op = "string" -> string_parser(p.s, p.transform, state)
    [] p.op = "test_char" -> test_char_parser(p.func, p.description, state)
    [] p.op = "eof" -> eof_parser(state)
    [] p.op = "success" -> Result_success(state.index, p.val)
    [] p.op = "fail" -> Result_failure(state.index, p.expected)
    [] p.op = "bind" -> bound_parser(p.self, p.bind_fn, state)
    [] p.op = "times" -> times_parser(p.self, p.min, p.the_max, state)
    [] p.op = "until" -> until_parser(p.self, p.other, p.min, p.max, state)
    [] p.op = "desc" -> desc_parser(p.self, p.description, state)
    [] p.op = "should_fail" -> fail_parser(p.self, p.description, state)
    [] p.op = "or" -> alt_parser(p.self, p.other, state)
    [] p.op = "and" -> and_parser(p.self, p.other, state)
    [] p.op = "peek" -> peek_parser(p.parser, state)
    [] p.op = "regex" -> regex_parser(p.pattern, state)
    [] p.op = "forward" -> generated(p.fn, state)
    [] p.op = "gather_perm" -> perm_parser(p.datatype, state)

-----------------------------------------------------------------------------
(* Exceptions: how a statement or a call ends. *)

Returned(res) == [kind |-> "return", result |-> res, type |-> "none"]
Raised(type, res) == [kind |-> "raise", result |-> res, type |-> type]

\* Parser.parse_state, called by ParseState.apply: the Result of the parser on the
\* state is returned inside (value, next state), or raised as ResultAsException.
parse_state(self, state) ==
  LET result_ == Call(self, state) IN
  IF result_.status THEN Returned(result_) ELSE Raised("ResultAsException", result_)

\* Parser.__call__ without its except clause.
__call___uncaught(completion) == completion

\* Parser.__call__, given how wrapped_fn(state) ended: a ResultAsException becomes
\* the returned Result, anything else passes.
__call__(completion) ==
  IF completion.kind = "raise" /\ completion.type = "ResultAsException"
  THEN Returned(completion.result)
  ELSE completion

-----------------------------------------------------------------------------
(* The entry points. *)

\* What parse and parse_partial do: return a value or raise ParseError(expected, state).
NoOutcome == [kind |-> "none", value |-> None, expected |-> {}, state |-> start(<<>>)]
Return(value, s) == [kind |-> "return", value |-> value, expected |-> {}, state |-> start(s)]
ParseError(expected, state) ==
  [kind |-> "ParseError", value |-> None, expected |-> expected, state |-> state]

parse_partial(self, s) ==
  LET r == Call(self, start(s)) IN
  IF r.status
  THEN Return(Tuple(<<r.value, Str(Slice(s, r.index, Len(s)))>>), s)
  ELSE ParseError(r.expected, ParseState(s, r.furthest))

parse(self, s) ==
  LET o == parse_partial(skip(self, eof), s) IN
  IF o.kind = "return" THEN Return(o.value.v[1], s) ELSE o

-----------------------------------------------------------------------------
(* Inputs: the streams and the parsers a client builds. *)

RECURSIVE SeqsUpTo(_, _)
SeqsUpTo(S, n) ==
  IF n = 0 THEN {<<>>}
  ELSE LET shorter == SeqsUpTo(S, n - 1) IN
       shorter \cup {Append(s, c) : s \in {q \in shorter : Len(q) = n - 1}, c \in S}

Streams == SeqsUpTo({"a", "b"}, MaxLen)

Counts == 0 .. MaxCount
Maxes == {Fin(n) : n \in Counts} \cup {Inf}

\* Leaf parsers; Consuming are those that never succeed without consuming input.
Consuming == {string(<<"a">>), string(<<"b">>), string(<<"a", "b">>), letter}
Leaves == Consuming \cup {eof, success(Str(<<"v">>)), fail(<<"n", "o">>)}

Pairs(P, Q) ==
  UNION {{__or__(p, q), __and__(p, q), then(p, q), skip(p, q)} : p \in P, q \in Q}

Repeats(P) ==
  UNION {{many(p), at_least(p, 1), at_most(p, 1), optional(p, None), list(p),
          bind(p, [fn |-> "const", parser |-> string(<<"b">>)])}
           \cup {times(p, mn, NoMax) : mn \in Counts}
           \cup {times(p, mn, Fin(MaxCount)) : mn \in Counts} : p \in P}

Separated(P, Q) ==
  {sep_by(p, q, mn, mx) : p \in P, q \in Q, mn \in Counts, mx \in Maxes}

\* Parsers of depth one, and those among them that are put under a second combinator.
Simple ==
  Pairs(Leaves, Leaves) \cup Repeats(Consuming)
    \cup Separated({string(<<"a">>), letter}, {string(<<"b">>)})
Inner ==
  {string(<<"a">>), string(<<"b">>), many(string(<<"a">>)), optional(string(<<"a">>), None),
   then(string(<<"a">>), string(<<"b">>)), __and__(string(<<"a">>), string(<<"a">>)),
   __or__(string(<<"a">>), string(<<"a", "b">>)), __or__(string(<<"b">>), fail(<<"n", "o">>)),
   skip(letter, eof)}

Grammars ==
  Leaves \cup Simple \cup Pairs(Inner, Inner)
    \cup {many(p) : p \in {then(string(<<"a">>), string(<<"b">>)),
                            __or__(string(<<"a">>), string(<<"b">>)),
                            __and__(many(string(<<"a">>)), string(<<"b">>))}}

\* Parsers that look ahead, relabel a failure or stop at a terminator.
NotLabel == <<"n", "o", "t">>
Looks(P) == UNION {{desc(p, NotLabel), should_fail(p, NotLabel), peek(p)} : p \in P}
Untils(P, Q) == {until(p, q, mn, mx) : p \in P, q \in Q, mn \in Counts, mx \in Maxes}

LookGrammars ==
  Looks(Leaves \cup Inner)
    \cup Pairs(Looks(Inner), {string(<<"a">>), string(<<"b">>), peek(string(<<"b">>))})
    \cup Pairs(Consuming, Looks(Consuming))
    \cup Untils({string(<<"a">>), letter},
                {string(<<"b">>), eof, should_fail(letter, NotLabel)})
    \cup {many(then(should_fail(string(<<"b">>), NotLabel), letter)),
          many(then(peek(letter), string(<<"a">>)))}

AllGrammars == Grammars \cup LookGrammars

\* The parsers and inputs of test_should_fail_isolated and test_peek.
NotADigit == <<"n", "o", "t", " ", "a", " ", "d", "i", "g", "i", "t">>
not_a_digit == should_fail(digit, NotADigit)
LookExamples ==
  {<<not_a_digit, <<"a">>>>, <<not_a_digit, <<"1">>>>,
   <<peek(any_char), <<"a", "b", "c">>>>, <<peek(digit), <<"a">>>>}

\* Literals, with and without case folding, as in test_string_transform_2.
Cat == <<"C", "a", "t">>
CatStreams == {<<"c", "a", "t">>, <<"C", "A", "T">>, <<"C", "a", "T">>, <<"d", "o", "g">>}
Literals == SeqsUpTo({"a", "A", "b"}, 2) \cup {Cat}
StringGrammars == {string2(l, transform) : l \in Literals, transform \in {"noop", "lower"}}
StringStreams == SeqsUpTo({"a", "A", "b"}, MaxLen) \cup CatStreams

\* string_from: lists of distinct candidates, and the titles of test_string_from.
Candidates == {<<>>, <<"a">>, <<"b">>, <<"a", "b">>, <<"b", "a">>, <<"a", "b", "b">>}
CandidateLists ==
  {cs \in SeqsUpTo(Candidates, MaxItems) :
     Len(cs) > 0 /\ \A j, k \in DOMAIN cs : cs[j] = cs[k] => j = k}
Mr == <<"M", "r">>
MrDot == <<"M", "r", ".">>
Mrs == <<"M", "r", "s">>
MrsDot == <<"M", "r", "s", ".">>
titles == string_from(<<Mr, MrDot, Mrs, MrsDot>>, "noop")
TitleStreams == {Mr, MrDot, Mrs, MrsDot, <<"f", "o", "o">>}
StringFromGrammars == {string_from(cs, "noop") : cs \in CandidateLists}

\* A parser after success(v) under >>, and before success(v) under <<.
UnitGrammars ==
  UNION {{then(success(Str(<<"v">>)), p), skip(p, success(None))} : p \in AllGrammars}

\* Dataclasses of two or three fields x, y, z, each with the parser of a literal;
\* some literals begin with another one.
FieldNames == <<<<"x">>, <<"y">>, <<"z">>>>
FieldParsers == {string(<<"a">>), string(<<"b">>), string(<<"a", "b">>), string(<<"b", "a">>)}
Datatypes ==
  {[i \in 1 .. Len(ps) |-> take(FieldNames[i], ps[i])] :
     ps \in {qs \in SeqsUpTo(FieldParsers, 3) :
               Len(qs) >= 2 /\ \A i, j \in 1 .. Len(qs) : i # j => qs[i] # qs[j]}}
PermGrammars == {gather_perm(d) : d \in Datatypes}
PermStreams == SeqsUpTo({"a", "b"}, MaxLen + 1)

\* Argument lists of seq, the empty one among them, and seq of test_seq.
SeqParts ==
  {string(<<"a">>), string(<<"b">>), many(string(<<"a">>)), optional(string(<<"b">>), None),
   __or__(string(<<"a">>), string(<<"a", "b">>)), eof}
SeqArguments == SeqsUpTo(SeqParts, 3)
num == map(regex(Digit1), [name |-> "int"])
a1b2a == <<regex(<<"a">>), num, regex(<<"b">>), num, __or__(regex(<<"a">>), num)>>
SeqExamples ==
  {a1b2a} \X {<<"a", "1", "b", "2", "a">>, <<"a", "1", "b", "2", "3">>, <<"a", "1", "b", "b", "3">>}

\* Texts of several lines, text of test_line_info_at among them.
abc_def == <<"a", "b", "c", "\n", "d", "e", "f">>
LineStreams == SeqsUpTo({"a", "\n"}, MaxLen + 1) \cup {abc_def}

\* Results as parsers return them: Result.success and Result.failure, bare or
\* with the failure context an aggregate has left on them.
Positions == 0 .. MaxLen
Contexts ==
  {[furthest |-> f, expected |-> ls] : f \in Positions,
                                       ls \in SUBSET {<<"a">>, <<"b">>} \ {{}}}
Results ==
  {Result_success(i, v) : i \in Positions, v \in {None, Str(<<"v">>)}}
    \cup {Result(TRUE, i, v, c.furthest, c.expected) :
            i \in Positions, v \in {None, Str(<<"v">>)}, c \in Contexts}
    \cup {Result(FALSE, -1, None, c.furthest, c.expected) : c \in Contexts}

\* Parsers bound to a function of their value: binder of test_bind, which yields
\* the same parser for every value, lambda x: string(x), and a map.
binder == [fn |-> "const", parser |-> string(<<"b">>)]
BindGrammars ==
  {bind(p, f) : p \in {string(<<"a">>), string(<<"a", "b">>), letter, success(Str(<<"a">>)),
                       fail(<<"n", "o">>)},
                f \in {binder, [fn |-> "string"], [fn |-> "map", map_fn |-> [name |-> "list"]]}}
    \cup {bind(p, f) : p \in {many(string(<<"a">>)), optional(string(<<"a">>), None), eof,
                              then(string(<<"a">>), string(<<"b">>)),
                              __or__(string(<<"a">>), string(<<"b">>))},
                       f \in {binder, [fn |-> "const", parser |-> many(string(<<"b">>))],
                              [fn |-> "const", parser |-> eof]}}

\* Literals matched up to case, one of them the lower case of U+0130, alone and
\* before other parsers; streams that hold U+0130.
i_dot == string2(<<"i", "U+0307">>, "lower")
CaseGrammars ==
  {string2(<<"a">>, "lower"), string2(<<"a", "b">>, "lower"), i_dot,
   then(i_dot, eof), then(i_dot, letter), __and__(string(<<"a">>), i_dot), many(i_dot),
   __or__(i_dot, string(<<"a">>)), until(i_dot, eof, 0, Inf), peek(i_dot)}
PositionGrammars == AllGrammars \cup CaseGrammars
PositionStreams == Streams \cup SeqsUpTo({"a", "A", "U+0130"}, 2)

\* Alternations of three parsers, grouped to the left and to the right; the
\* alternatives fail at different positions or succeed with the memory of a failure.
AltParts ==
  Leaves \cup {many(string(<<"a">>)), optional(string(<<"a">>), None),
               then(string(<<"a">>), string(<<"b">>)),
               __and__(string(<<"a">>), string(<<"a">>)), skip(letter, eof)}
AltGrammars ==
  UNION {{__or__(__or__(a, b), c), __or__(a, __or__(b, c))} : a \in AltParts, b \in AltParts,
                                                            c \in AltParts}

\* Repetitions without a largest count, of children that consume input and of
\* children that can succeed without consuming any.
LoopChildren ==
  {string(<<"s">>), letter, success(Str(<<"v">>)), eof, optional(string(<<"s">>), None),
   peek(string(<<"s">>))}
LoopGrammars ==
  {times(p, mn, Inf) : p \in LoopChildren, mn \in Counts}
    \cup {until(p, o, mn, Inf) : p \in LoopChildren, o \in {string(<<"x">>), eof},
                                 mn \in Counts}

\* Functions wrapped by Parser, as xy of test_state_parser_backtracking, and the
\* alternations they are the first member of.
xy == [body |-> <<string(<<"x">>), string(<<"y">>)>>, last |-> "assert"]
Applied == {string(<<"x">>), string(<<"y">>), then(string(<<"x">>), string(<<"y">>))}
Functions == {[body |-> <<p, q>>, last |-> l] : p, q \in Applied, l \in {"assert", "return"}}
CustomGrammars ==
  {__or__(Parser(fn), o) : fn \in Functions, o \in {string(<<"z">>), string(<<"x">>)}}
CustomStreams == SeqsUpTo({"x", "y", "z"}, MaxLen)

\* Repetitions of an item, on streams of items and one other character.
Items == {string(<<"s">>), string(<<"s", "x">>), letter}
RunStreams == SeqsUpTo({"s", "x", "1"}, MaxRun)
TimesGrammars ==
  {times(p, mn, mx) : p \in Items, mn \in Counts, mx \in Maxes \cup {NoMax}}

\* until: items up to a terminator.
UntilGrammars ==
  {until(p, o, mn, mx) : p \in {string(<<"s">>), letter},
                         o \in {string(<<"x">>), string(<<"s", "x">>), eof},
                         mn \in Counts, mx \in Maxes}

\* sep_by: items separated by a separator.
comma == string(<<",">>)
SepItems == {digit, concat(at_least(digit, 1))}
Seps == {comma, string(<<",", ",">>)}
SepGrammars == {sep_by(p, q, mn, mx) : p \in SepItems, q \in Seps, mn \in Counts, mx \in Maxes}
SepStreams == SeqsUpTo({"8", ","}, MaxRun + 1)

\* Lists of words joined by commas, as in test_tag.
word == concat(many(letter))
word1 == concat(at_least(letter, 1))
WordGrammars == {sep_by(w, comma, 0, Inf) : w \in {word, word1}}
Words == {<<"a">>, <<"b">>, <<"a", "b">>}
WordLists == SeqsUpTo(Words, MaxItems)
WordStreams == {Join(xs, <<",">>) : xs \in WordLists} \cup SeqsUpTo({"a", ","}, MaxLen)

\* The grammars and inputs of the library's own tests.
abc == __or__(__or__(string(<<"a">>), string(<<"b">>)), string(<<"c">>))
xyz_or_x == __or__(then(string(<<"x", "y">>), string(<<"z">>)), string(<<"x">>))
or_with_then == __or__(then(string(<<"\\">>), string(<<"y">>)), string(<<"z">>))

Examples ==
  {<<abc, <<"d">>>>, <<string(<<"a", "b">>), <<"a", "b", "c">>>>,
   <<xyz_or_x, <<"x">>>>, <<xyz_or_x, <<"x", "y">>>>,
   <<or_with_then, <<"z">>>>, <<or_with_then, <<"\\", "z">>>>,
   <<or_with_then, <<"\\", "y">>>>}

times35 == times(string(<<"s">>), 3, Fin(5))
ssx == <<"s", "s", "x">>
sssx == <<"s", "s", "s", "x">>
sssssx == <<"s", "s", "s", "s", "s", "x">>
ssssssx == <<"s", "s", "s", "s", "s", "s", "x">>
BoundaryStreams == {ssx, sssx, sssssx, ssssssx}

until35 == until(string(<<"s">>), string(<<"x">>), 3, Fin(5))

\* Nested lists of integers with up to two members, and the text of one:
\* "(12 (12 12))".
NestedInts == {IntVal(12)}

RECURSIVE NestedValues(_)
NestedValues(depth) ==
  IF depth = 0 THEN NestedInts
  ELSE NestedInts \cup {List(vs) : vs \in SeqsUpTo(NestedValues(depth - 1), 2)}

RECURSIVE Render(_)
Render(value) ==
  IF value.t = "int" THEN IntStr(value.v)
  ELSE <<"(">> \o Join([k \in DOMAIN value.v |-> Render(value.v[k])], <<" ">>) \o <<")">>

NestedTexts == {Render(v) : v \in NestedValues(MaxDepth)}
NestedStreams == NestedTexts \cup SeqsUpTo({"(", ")", " ", "1"}, MaxLen)

\* The input and the result of test_recursive_parser, without the innermost list.
nested_example == <<"(", "0", " ", "1", " ", "(", "2", " ", "3", ")", ")">>
nested_result == List(<<IntVal(0), IntVal(1), List(<<IntVal(2), IntVal(3)>>)>>)

-----------------------------------------------------------------------------
(* The state machine: a client holds a parser and a stream and calls the   *)
(* entry points.  locals holds the local variables of a wrapped function   *)
(* that is run statement by statement; the entry points run theirs whole.  *)

\* No wrapped function is running.
NoLocals == [pc |-> "none"]

Init ==
  /\ \E e \in (Grammars \X Streams) \cup Examples : parser = e[1] /\ stream = e[2]
  /\ op = "init"
  /\ index = 0
  /\ result = NoResult
  /\ outcome = NoOutcome
  /\ locals = NoLocals

\* parser(ParseState(stream, i))
Invoke(i) ==
  /\ op' = "call"
  /\ index' = i
  /\ result' = Call(parser, ParseState(stream, i))
  /\ outcome' = NoOutcome
  /\ UNCHANGED <<parser, stream, locals>>

\* parser.parse(stream)
Parse ==
  /\ op' = "parse"
  /\ index' = 0
  /\ result' = Call(skip(parser, eof), start(stream))
  /\ outcome' = parse(parser, stream)
  /\ UNCHANGED <<parser, stream, locals>>

\* parser.parse_partial(stream)
ParsePartial ==
  /\ op' = "parse_partial"
  /\ index' = 0
  /\ result' = Call(parser, start(stream))
  /\ outcome' = parse_partial(parser, stream)
  /\ UNCHANGED <<parser, stream, locals>>

Next ==
  \/ \E i \in 0 .. Len(stream) : Invoke(i)
  \/ Parse
  \/ ParsePartial

Spec == Init /\ [][Next]_vars

\* Clients that repeat an item with times.
InitTimes ==
  /\ \E e \in (TimesGrammars \X RunStreams) \cup ({times35} \X BoundaryStreams) :
       parser = e[1] /\ stream = e[2]
  /\ op = "init"
  /\ index = 0
  /\ result = NoResult
  /\ outcome = NoOutcome
  /\ locals = NoLocals

SpecTimes == InitTimes /\ [][Next]_vars

\* Clients that repeat an item up to a terminator with until.
InitUntil ==
  /\ \E e \in (UntilGrammars \X RunStreams) \cup ({until35} \X BoundaryStreams) :
       parser = e[1] /\ stream = e[2]
  /\ op = "init"
  /\ index = 0
  /\ result = NoResult
  /\ outcome = NoOutcome
  /\ locals = NoLocals

SpecUntil == InitUntil /\ [][Next]_vars

\* Clients that parse separated lists with sep_by.
InitSepBy ==
  /\ \E e \in SepGrammars \X SepStreams : parser = e[1] /\ stream = e[2]
  /\ op = "init"
  /\ index = 0
  /\ result = NoResult
  /\ outcome = NoOutcome
  /\ locals = NoLocals

SpecSepBy == InitSepBy /\ [][Next]_vars

\* Clients that parse comma-separated words.
InitWords ==
  /\ \E e \in WordGrammars \X WordStreams : parser = e[1] /\ stream = e[2]
  /\ op = "init"
  /\ index = 0
  /\ result = NoResult
  /\ outcome = NoOutcome
  /\ locals = NoLocals

SpecWords == InitWords /\ [][Next]_vars

\* Clients of every combinator, lookahead and relabelling included.
InitAll ==
  /\ \E e \in (AllGrammars \X Streams) \cup LookExamples : parser = e[1] /\ stream = e[2]
  /\ op = "init"
  /\ index = 0
  /\ result = NoResult
  /\ outcome = NoOutcome
  /\ locals = NoLocals

SpecAll == InitAll /\ [][Next]_vars

\* Clients that match a literal.
InitString ==
  /\ \E e \in StringGrammars \X StringStreams : parser = e[1] /\ stream = e[2]
  /\ op = "init"
  /\ index = 0
  /\ result = NoResult
  /\ outcome = NoOutcome
  /\ locals = NoLocals

SpecString == InitString /\ [][Next]_vars

\* Clients that match one of several literals.
InitStringFrom ==
  /\ \E e \in (StringFromGrammars \X Streams) \cup ({titles} \X TitleStreams) :
       parser = e[1] /\ stream = e[2]
  /\ op = "init"
  /\ index = 0
  /\ result = NoResult
  /\ outcome = NoOutcome
  /\ locals = NoLocals

SpecStringFrom == InitStringFrom /\ [][Next]_vars

\* Clients of an alternation custom | other, where custom wraps a function that is
\* run statement by statement.  locals holds the statement to run next (pc), the
\* function's variable s, the statements executed so far and how the call of
\* custom ended.
InitCustom ==
  /\ \E e \in CustomGrammars \X CustomStreams : parser = e[1] /\ stream = e[2]
  /\ op = "init"
  /\ index = 0
  /\ result = NoResult
  /\ outcome = NoOutcome
  /\ locals = NoLocals

\* alt_parser calls self(state): Parser.__call__ enters the wrapped function.
CallCustom(i) ==
  /\ op = "init"
  /\ op' = "running"
  /\ index' = i
  /\ locals' = [pc |-> 1, s |-> ParseState(stream, i), executed |-> <<>>,
                ended |-> Returned(NoResult)]
  /\ UNCHANGED <<parser, stream, result, outcome>>

\* The call of custom has ended: a returned Result is result1 of alt_parser, which
\* returns it or goes on with other(state); an exception leaves alt_parser too.
AltAfter(ended) ==
  IF ended.kind = "return"
  THEN LET result1 == aggregate(ended.result, NoResult) IN
       /\ result' = (IF result1.status THEN result1
                     ELSE aggregate(Call(parser.other, ParseState(stream, index)), result1))
       /\ outcome' = NoOutcome
  ELSE /\ result' = NoResult
       /\ outcome' = [kind |-> ended.type, value |-> None, expected |-> {},
                      state |-> ParseState(stream, index)]

\* _, s = s.apply(p): the next state is kept, or ResultAsException unwinds the
\* function up to Parser.__call__.
Apply ==
  /\ op = "running"
  /\ locals.pc <= Len(parser.self.wrapped_fn.body)
  /\ LET got == parse_state(parser.self.wrapped_fn.body[locals.pc], locals.s) IN
     IF got.kind = "return"
     THEN /\ locals' = [locals EXCEPT !.pc = @ + 1, !.s = at(@, got.result.index),
                                      !.executed = Append(@, locals.pc)]
          /\ UNCHANGED <<op, result, outcome>>
     ELSE /\ locals' = [locals EXCEPT !.executed = Append(@, locals.pc),
                                      !.ended = __call__(got)]
          /\ op' = "call"
          /\ AltAfter(__call__(got))
  /\ UNCHANGED <<parser, stream, index>>

\* assert False
AssertFalse ==
  /\ op = "running"
  /\ locals.pc = Len(parser.self.wrapped_fn.body) + 1
  /\ parser.self.wrapped_fn.last = "assert"
  /\ locals' = [locals EXCEPT !.executed = Append(@, locals.pc),
                              !.ended = __call__(Raised("AssertionError", NoResult))]
  /\ op' = "call"
  /\ AltAfter(__call__(Raised("AssertionError", NoResult)))
  /\ UNCHANGED <<parser, stream, index>>

\* return s.success(None)
ReturnSuccess ==
  /\ op = "running"
  /\ locals.pc = Len(parser.self.wrapped_fn.body) + 1
  /\ parser.self.wrapped_fn.last = "return"
  /\ locals' = [locals EXCEPT !.executed = Append(@, locals.pc),
                              !.ended = __call__(Returned(Result_success(locals.s.index, None)))]
  /\ op' = "call"
  /\ AltAfter(__call__(Returned(Result_success(locals.s.index, None))))
  /\ UNCHANGED <<parser, stream, index>>

NextCustom ==
  \/ \E i \in 0 .. Len(stream) : CallCustom(i)
  \/ Apply
  \/ AssertFalse
  \/ ReturnSuccess

SpecCustom == InitCustom /\ [][NextCustom]_vars

\* Clients that put success(v) before or after a parser.
InitUnit ==
  /\ \E e \in UnitGrammars \X Streams : parser = e[1] /\ stream = e[2]
  /\ op = "init"
  /\ index = 0
  /\ result = NoResult
  /\ outcome = NoOutcome
  /\ locals = NoLocals

SpecUnit == InitUnit /\ [][Next]_vars

\* Clients that parse the fields of a dataclass in any order.
InitPerm ==
  /\ \E e \in PermGrammars \X PermStreams : parser = e[1] /\ stream = e[2]
  /\ op = "init"
  /\ index = 0
  /\ result = NoResult
  /\ outcome = NoOutcome
  /\ locals = NoLocals

SpecPerm == InitPerm /\ [][Next]_vars

\* Clients that call seq with a list of parsers and use the parser they get.
\* locals holds the arguments; parser is unbound until seq has returned.
InitSeq ==
  /\ \E e \in (SeqArguments \X Streams) \cup SeqExamples :
       /\ locals = [pc |-> "seq", parsers |-> e[1]]
       /\ stream = e[2]
  /\ parser = [op |-> "none"]
  /\ op = "init"
  /\ index = 0
  /\ result = NoResult
  /\ outcome = NoOutcome

\* parser = seq(*parsers): the parser is bound, or the exception leaves the client.
CallSeq ==
  /\ op = "init"
  /\ LET built == seq(locals.parsers) IN
     IF built.kind = "return"
     THEN /\ parser' = built.parser
          /\ op' = "constructed"
          /\ outcome' = NoOutcome
     ELSE /\ parser' = parser
          /\ op' = "raised"
          /\ outcome' = [kind |-> built.type, value |-> None, expected |-> {},
                         state |-> start(stream)]
  /\ locals' = [locals EXCEPT !.pc = "done"]
  /\ UNCHANGED <<stream, index, result>>

NextSeq ==
  \/ CallSeq
  \/ op \notin {"init", "raised"} /\ Next

SpecSeq == InitSeq /\ [][NextSeq]_vars

\* Clients that ask for the line and column of a position of a text, also of a
\* position past its end.
InitLines ==
  /\ stream \in LineStreams
  /\ parser = [op |-> "none"]
  /\ op = "init"
  /\ index = 0
  /\ result = NoResult
  /\ outcome = NoOutcome
  /\ locals = NoLocals

\* line_info_at(ParseState(stream, i))
LineInfoAt(i) ==
  /\ op' = "line_info_at"
  /\ index' = i
  /\ locals' = [pc |-> "done", ended |-> line_info_at(ParseState(stream, i))]
  /\ UNCHANGED <<parser, stream, result, outcome>>

NextLines == \E i \in 0 .. Len(stream) + 2 : LineInfoAt(i)

SpecLines == InitLines /\ [][NextLines]_vars

\* Clients that aggregate two Results, or a Result and None; locals holds the two.
InitAggregate ==
  /\ \E a \in Results, b \in Results : locals = [pc |-> "args", a |-> a, b |-> b]
  /\ parser = [op |-> "none"]
  /\ stream = <<>>
  /\ op = "init"
  /\ index = 0
  /\ result = NoResult
  /\ outcome = NoOutcome

\* result = a.aggregate(b)
Aggregate ==
  /\ op' = "aggregate"
  /\ result' = aggregate(locals.a, locals.b)
  /\ UNCHANGED <<parser, stream, index, outcome, locals>>

\* result = a.aggregate(None)
AggregateNone ==
  /\ op' = "aggregate_none"
  /\ result' = aggregate(locals.a, NoResult)
  /\ UNCHANGED <<parser, stream, index, outcome, locals>>

NextAggregate ==
  \/ Aggregate
  \/ AggregateNone

SpecAggregate == InitAggregate /\ [][NextAggregate]_vars

\* Clients of a bound parser whose steps are taken one by one.  locals holds
\* piped, the values bind_fn was called with, and next_parser; result is the
\* variable result of bound_parser, and what the parser returned once op is "call".
InitBind ==
  /\ \E e \in BindGrammars \X Streams : parser = e[1] /\ stream = e[2]
  /\ op = "init"
  /\ index = 0
  /\ result = NoResult
  /\ outcome = NoOutcome
  /\ locals = NoLocals

\* bound_parser is called: result = self(state); a failure is returned at once.
CallBound(i) ==
  /\ op = "init"
  /\ index' = i
  /\ result' = Call(parser.self, ParseState(stream, i))
  /\ op' = (IF result'.status THEN "running" ELSE "call")
  /\ locals' = [pc |-> (IF result'.status THEN "bind_fn" ELSE "done"), piped |-> <<>>,
                next_parser |-> [op |-> "none"]]
  /\ UNCHANGED <<parser, stream, outcome>>

\* next_parser = bind_fn(result.value)
CallBindFn ==
  /\ op = "running"
  /\ locals.pc = "bind_fn"
  /\ locals' = [locals EXCEPT !.pc = "next", !.piped = Append(@, result.value),
                              !.next_parser = BindFn(parser.bind_fn, result.value)]
  /\ UNCHANGED <<parser, stream, op, index, result, outcome>>

\* return next_parser(state.at(result.index)).aggregate(result)
CallNext ==
  /\ op = "running"
  /\ locals.pc = "next"
  /\ result' = aggregate(Call(locals.next_parser, at(ParseState(stream, index), result.index)),
                         result)
  /\ op' = "call"
  /\ locals' = [locals EXCEPT !.pc = "done"]
  /\ UNCHANGED <<parser, stream, index, outcome>>

NextBind ==
  \/ \E i \in 0 .. Len(stream) : CallBound(i)
  \/ CallBindFn
  \/ CallNext

SpecBind == InitBind /\ [][NextBind]_vars

\* Clients of every combinator and of literals matched up to case.
InitPositions ==
  /\ \E e \in PositionGrammars \X PositionStreams : parser = e[1] /\ stream = e[2]
  /\ op = "init"
  /\ index = 0
  /\ result = NoResult
  /\ outcome = NoOutcome
  /\ locals = NoLocals

SpecPositions == InitPositions /\ [][Next]_vars

\* Clients that choose among three alternatives.
InitAlt ==
  /\ \E e \in AltGrammars \X Streams : parser = e[1] /\ stream = e[2]
  /\ op = "init"
  /\ index = 0
  /\ result = NoResult
  /\ outcome = NoOutcome
  /\ locals = NoLocals

SpecAlt == InitAlt /\ [][Next]_vars

\* Clients of a repetition whose while loop is run iteration by iteration.  locals
\* holds the loop's variables state, values and times; result is the variable
\* result of times_parser, and what the parser returned once op is "call".
InitLoop ==
  /\ \E e \in LoopGrammars \X RunStreams : parser = e[1] /\ stream = e[2]
  /\ op = "init"
  /\ index = 0
  /\ result = NoResult
  /\ outcome = NoOutcome
  /\ locals = NoLocals

\* The parser is called: values = [], times = 0, result = None.
CallLoop(i) ==
  /\ op = "init"
  /\ op' = "running"
  /\ index' = i
  /\ locals' = [pc |-> "loop", state |-> ParseState(stream, i), values |-> <<>>, times |-> 0]
  /\ result' = NoResult
  /\ UNCHANGED <<parser, stream, outcome>>

\* The parser returns res.
ReturnFromLoop(res) ==
  /\ op' = "call"
  /\ result' = res
  /\ locals' = [locals EXCEPT !.pc = "done"]

\* The loop goes round with one more value.
Consume(r) ==
  /\ locals' = [locals EXCEPT !.state = at(@, r.index), !.values = Append(@, r.value),
                              !.times = @ + 1]
  /\ UNCHANGED op

\* One test of "while times < the_max" of times_parser and the iteration after it.
TimesIteration ==
  /\ op = "running"
  /\ parser.op = "times"
  /\ locals.times < MaxIter
  /\ IF NumLess(locals.times, parser.the_max)
     THEN LET r == aggregate(Call(parser.self, locals.state), result) IN
          IF r.status THEN Consume(r) /\ result' = r
          ELSE IF locals.times >= parser.min
          THEN ReturnFromLoop(aggregate(Result_success(locals.state.index, List(locals.values)), r))
          ELSE ReturnFromLoop(r)
     ELSE ReturnFromLoop(aggregate(Result_success(locals.state.index, List(locals.values)),
                                   result))
  /\ UNCHANGED <<parser, stream, index, outcome>>

\* One iteration of "while True" of until_parser.
UntilIteration ==
  /\ op = "running"
  /\ parser.op = "until"
  /\ locals.times < MaxIter
  /\ LET res == Call(parser.other, locals.state) IN
     IF res.status /\ locals.times >= parser.min
     THEN ReturnFromLoop(Result_success(locals.state.index, List(locals.values)))
     ELSE IF NumGeq(locals.times, parser.max)
     THEN ReturnFromLoop(Result_failure(locals.state.index, AtMostLabel(parser.max)))
     ELSE LET r == Call(parser.self, locals.state) IN
          IF r.status THEN Consume(r) /\ UNCHANGED result
          ELSE IF locals.times >= parser.min
          THEN ReturnFromLoop(Result_failure(locals.state.index, NotFoundLabel))
          ELSE ReturnFromLoop(Result_failure(locals.state.index,
                                             AtLeastLabel(parser.min, locals.times)))
  /\ UNCHANGED <<parser, stream, index, outcome>>

NextLoop ==
  \/ \E i \in 0 .. Len(stream) : CallLoop(i)
  \/ TimesIteration
  \/ UntilIteration

SpecLoop == InitLoop /\ [][NextLoop]_vars

\* Clients that parse nested integer lists with the recursive parser.
InitNested ==
  /\ \E e \in {recursive_parser, _parser} \X (NestedStreams \cup {nested_example}) :
       parser = e[1] /\ stream = e[2]
  /\ op = "init"
  /\ index = 0
  /\ result = NoResult
  /\ outcome = NoOutcome
  /\ locals = NoLocals

SpecNested == InitNested /\ [][Next]_vars

-----------------------------------------------------------------------------
(* The failed primitive attempts of one invocation: the <<position, label>> *)
(* of every Result.failure a primitive returns while p runs on state.       *)

RECURSIVE Attempts(_, _)

RECURSIVE times_attempts(_, _, _, _)
times_attempts(self, the_max, state, n) ==
  IF NumLess(n, the_max)
  THEN LET r == Call(self, state) IN
       Attempts(self, state)
         \cup (IF r.status THEN times_attempts(self, the_max, at(state, r.index), n + 1)
               ELSE {})
  ELSE {}

Attempts(p, state) ==
  LET r == Call(p, state) IN
  CASE p.op \in {"string", "test_char", "eof", "fail"} ->
         IF r.status THEN {} ELSE {<<r.furthest, l>> : l \in r.expected}
    [] p.op = "success" -> {}
    [] p.op = "bind" ->
         LET r1 == Call(p.self, state) IN
         Attempts(p.self, state)
           \cup (IF r1.status
                 THEN Attempts(BindFn(p.bind_fn, r1.value), at(state, r1.index))
                 ELSE {})
    [] p.op = "or" ->
         Attempts(p.self, state)
           \cup (IF Call(p.self, state).status THEN {} ELSE Attempts(p.other, state))
    [] p.op = "and" ->
         LET r1 == Call(p.self, state) IN
         Attempts(p.self, state)
           \cup (IF r1.status THEN Attempts(p.other, at(state, r1.index)) ELSE {})
    [] p.op = "times" -> times_attempts(p.self, p.the_max, state, 0)

SetMax(S) == CHOOSE m \in S : \A n \in S : n <= m

-----------------------------------------------------------------------------
(* Claims. *)

\* C1: parse returns the parser's value exactly when the parser succeeds from
\* position 0 with next position len(stream); when it succeeds on a strict prefix
\* only, parse raises ParseError while parse_partial returns (value, rest).
C1_WholeInput ==
  LET r == Call(parser, start(stream)) IN
  /\ op = "parse" =>
       /\ outcome.kind = "return" <=> (r.status /\ r.index = Len(stream))
       /\ outcome.kind = "return" => outcome.value = r.value
       /\ outcome.kind \in {"return", "ParseError"}
  /\ (op = "parse_partial" /\ r.status) =>
       /\ outcome.kind = "return"
       /\ outcome.value = Tuple(<<r.value, Str(SubSeq(stream, r.index + 1, Len(stream)))>>)
  /\ (parser = string(<<"a", "b">>) /\ stream = <<"a", "b", "c">>) =>
       /\ op = "parse" => outcome.kind = "ParseError"
       /\ op = "parse_partial" =>
            outcome.value = Tuple(<<Str(<<"a", "b">>), Str(<<"c">>)>>)

C1_Witness ==
  /\ op = "parse"
  /\ outcome.kind = "ParseError"
  /\ Call(parser, start(stream)).status
  /\ Call(parser, start(stream)).index < Len(stream)
  /\ Call(parser, start(stream)).index > 0

\* C2: when parse fails, the ParseError's position is the greatest position at
\* which a primitive attempt failed during the parse, and its expected set is the
\* set of the labels of all the primitive attempts that failed at that position.
C2_FurthestFailure ==
  (op = "parse" /\ outcome.kind = "ParseError") =>
    LET A == Attempts(skip(parser, eof), start(stream))
        m == SetMax({a[1] : a \in A})
    IN  /\ A # {}
        /\ outcome.state = ParseState(stream, m)
        /\ outcome.expected = {a[2] : a \in {x \in A : x[1] = m}}
        /\ (parser = abc /\ stream = <<"d">>) =>
             /\ outcome.expected = {<<"a">>, <<"b">>, <<"c">>}
             /\ outcome.state.index = 0

\* Labels of attempts in different branches of the grammar meet at the furthest position.
C2_Witness ==
  /\ op = "parse"
  /\ outcome.kind = "ParseError"
  /\ Cardinality(outcome.expected) >= 2
  /\ outcome.state.index > 0
  /\ \E a \in Attempts(skip(parser, eof), start(stream)) : a[1] < outcome.state.index

\* C3: for P = A | B, when A succeeds on a state, P's Result on that state is A's
\* Result (value, next position and failure context), whatever B would do there.
C3_LeftBias ==
  (op = "call" /\ parser.op = "or") =>
    LET a == Call(parser.self, ParseState(stream, index)) IN
    a.status => result = a

\* A succeeds and B would match more input.
C3_Witness ==
  /\ op = "call"
  /\ parser.op = "or"
  /\ Call(parser.self, ParseState(stream, index)).status
  /\ Call(parser.other, ParseState(stream, index)).status
  /\ Call(parser.other, ParseState(stream, index)).index
       > Call(parser.self, ParseState(stream, index)).index
  /\ result.index = Call(parser.self, ParseState(stream, index)).index

\* C4: for P = A | B, when A fails on a state, also after its inner parsers
\* consumed input, B runs on that same state: P's status, value and next position
\* are those of B there.
C4_Backtracking ==
  /\ (op = "call" /\ parser.op = "or") =>
       LET a == Call(parser.self, ParseState(stream, index))
           b == Call(parser.other, ParseState(stream, index))
       IN  ~a.status =>
             /\ result.status = b.status
             /\ result.index = b.index
             /\ result.value = b.value
  /\ (op = "parse" /\ parser = xyz_or_x /\ stream = <<"x">>) =>
       outcome = Return(Str(<<"x">>), stream)
  /\ (op = "parse" /\ parser = or_with_then /\ stream = <<"z">>) =>
       outcome = Return(Str(<<"z">>), stream)
  /\ (op = "parse" /\ parser = or_with_then /\ stream = <<"\\", "z">>) =>
       outcome.kind = "ParseError"

\* A consumed input before it failed, and B succeeds from the original position.
C4_Witness ==
  /\ op = "call"
  /\ parser.op = "or"
  /\ ~Call(parser.self, ParseState(stream, index)).status
  /\ Call(parser.self, ParseState(stream, index)).furthest > index
  /\ result.status
  /\ result.index > index

-----------------------------------------------------------------------------
(* Runs of consecutive matches of an item parser that consumes input. *)

\* The number of consecutive matches of p from state.
RECURSIVE MatchCount(_, _)
MatchCount(p, state) ==
  LET r == Call(p, state) IN
  IF r.status /\ r.index > state.index THEN 1 + MatchCount(p, at(state, r.index)) ELSE 0

\* The values of the first n consecutive matches of p from state, and the position
\* after them.
RECURSIVE ItemValues(_, _, _)
ItemValues(p, state, n) ==
  IF n = 0 THEN <<>>
  ELSE LET r == Call(p, state) IN <<r.value>> \o ItemValues(p, at(state, r.index), n - 1)

RECURSIVE ItemEnd(_, _, _)
ItemEnd(p, state, n) ==
  IF n = 0 THEN state.index
  ELSE ItemEnd(p, at(state, Call(p, state).index), n - 1)

\* min(k, max) for max an int or float("inf").
Capped(k, max) == IF NumLess(k, max) THEN k ELSE max.n

\* C5: for min <= max, p.times(min, max) at a position followed by exactly k
\* consecutive matches of p fails if k < min and otherwise succeeds with the first
\* min(k, max) values, ends right after them and does not attempt p after max
\* successes; p.times(n) takes exactly n; a whole-input parse of k items fails for
\* k < min and for k > max.
C5_BoundedRepetition ==
  (parser.op = "times" /\ NumLeq(parser.min, parser.the_max)) =>
       LET p == parser.self
           mn == parser.min
           mx == parser.the_max
           s == ParseState(stream, index)
           k == MatchCount(p, s)
           n == Capped(k, mx)
       IN  /\ op = "call" =>
                /\ result.status <=> k >= mn
                /\ k >= mn =>
                     /\ result.value = List(ItemValues(p, s, n))
                     /\ Len(result.value.v) = n
                     /\ result.index = ItemEnd(p, s, n)
                /\ (k >= mn /\ NumGeq(k, mx)) => (result.furthest = -1 /\ result.expected = {})
                /\ (\E q \in Items : parser = times(q, mn, NoMax)) =>
                     (result.status => Len(result.value.v) = mn)
           /\ (op = "parse" /\ ItemEnd(p, start(stream), MatchCount(p, start(stream))) = Len(stream)) =>
                LET k0 == MatchCount(p, start(stream)) IN
                IF k0 < mn \/ ~NumLeq(k0, mx)
                THEN outcome.kind = "ParseError"
                ELSE outcome = Return(List(ItemValues(p, start(stream), k0)), stream)

\* More matches follow than max allows, and the repetition stops at max.
C5_Witness ==
  /\ op = "call"
  /\ parser.op = "times"
  /\ parser.min >= 1
  /\ parser.the_max.kind = "int"
  /\ parser.min < parser.the_max.n
  /\ MatchCount(parser.self, ParseState(stream, index)) > parser.the_max.n
  /\ result.status
  /\ Len(result.value.v) = parser.the_max.n

\* C6, as the spec states it: string("s").times(3, 5) fails on "ssx", yields 3
\* items and leaves "x" on "sssx", yields 5 items on "sssssx", and on "ssssssx"
\* fails with an "at most 5" label.
C6_AsStated ==
  (parser = times35 /\ op = "parse_partial") =>
    /\ stream = ssx => outcome.kind = "ParseError"
    /\ stream = sssx =>
         outcome = Return(Tuple(<<List([k \in 1 .. 3 |-> Str(<<"s">>)]), Str(<<"x">>)>>), stream)
    /\ stream = sssssx =>
         outcome = Return(Tuple(<<List([k \in 1 .. 5 |-> Str(<<"s">>)]), Str(<<"x">>)>>), stream)
    /\ stream = ssssssx =>
         /\ outcome.kind = "ParseError"
         /\ AtMostLabel(Fin(5)) \in outcome.expected

\* C6, amended: on "ssssssx" times(3, 5) succeeds with 5 items and leaves "sx";
\* the whole-input parse of "ssssssx" fails at position 5 expecting "EOF".
C6_Boundary ==
  /\ (parser = times35 /\ op = "parse_partial") =>
       /\ stream = ssx => outcome = ParseError({<<"s">>}, ParseState(stream, 2))
       /\ stream = sssx =>
            outcome = Return(Tuple(<<List([k \in 1 .. 3 |-> Str(<<"s">>)]), Str(<<"x">>)>>), stream)
       /\ stream = sssssx =>
            outcome = Return(Tuple(<<List([k \in 1 .. 5 |-> Str(<<"s">>)]), Str(<<"x">>)>>), stream)
       /\ stream = ssssssx =>
            outcome = Return(Tuple(<<List([k \in 1 .. 5 |-> Str(<<"s">>)]),
                                     Str(<<"s", "x">>)>>), stream)
  /\ (parser = times35 /\ op = "parse" /\ stream = ssssssx) =>
       outcome = ParseError({EOF_LABEL}, ParseState(stream, 5))

C6_Witness ==
  /\ parser = times35
  /\ stream = ssssssx
  /\ op = "parse_partial"
  /\ outcome.kind = "return"

\* The least number in S.
SetMin(S) == CHOOSE m \in S : \A n \in S : m <= n

AtMost5Items == <<"a", "t", " ", "m", "o", "s", "t", " ", "5", " ", "i", "t", "e", "m", "s">>
AtLeast3Got2 ==
  <<"a", "t", " ", "l", "e", "a", "s", "t", " ", "3", " ", "i", "t", "e", "m", "s", ";", " ",
    "g", "o", "t", " ", "2", " ", "i", "t", "e", "m", "(", "s", ")">>

\* C7: p.until(other, min, max) consumes matches of p one at a time and tests
\* other before each.  With n the number of items consumed when it stops: it
\* succeeds with the n values at the first position where other matches and
\* n >= min, ending at the start of other's match; otherwise it fails there with
\* "at most {max} items" once n has reached max, and when p fails with "did not
\* find other parser" if n >= min and "at least {min} items; got {n} item(s)" if not.
C7_Until ==
  /\ (op = "call" /\ parser.op = "until") =>
       LET p == parser.self
           o == parser.other
           mn == parser.min
           mx == parser.max
           s == ParseState(stream, index)
           k == MatchCount(p, s)
           Pos(m) == ItemEnd(p, s, m)
           OtherAt(m) == Call(o, at(s, Pos(m))).status
           n == SetMin({m \in 0 .. k : (OtherAt(m) /\ m >= mn) \/ NumGeq(m, mx) \/ m = k})
       IN  IF OtherAt(n) /\ n >= mn
           THEN result = Result_success(Pos(n), List(ItemValues(p, s, n)))
           ELSE IF NumGeq(n, mx)
           THEN result = Result_failure(Pos(n), AtMostLabel(mx))
           ELSE IF n >= mn
           THEN result = Result_failure(Pos(n), NotFoundLabel)
           ELSE result = Result_failure(Pos(n), AtLeastLabel(mn, n))
  /\ (op = "parse_partial" /\ parser = until35) =>
       /\ stream = ssx => outcome = ParseError({AtLeast3Got2}, ParseState(stream, 2))
       /\ stream = sssx =>
            outcome = Return(Tuple(<<List([j \in 1 .. 3 |-> Str(<<"s">>)]), Str(<<"x">>)>>), stream)
       /\ stream = sssssx =>
            outcome = Return(Tuple(<<List([j \in 1 .. 5 |-> Str(<<"s">>)]), Str(<<"x">>)>>), stream)
       /\ stream = ssssssx => outcome = ParseError({AtMost5Items}, ParseState(stream, 5))

\* Items were consumed up to a terminator that is left in the stream.
C7_Witness ==
  /\ op = "call"
  /\ parser.op = "until"
  /\ parser.min >= 1
  /\ result.status
  /\ Len(result.value.v) > parser.min
  /\ parser.max.kind = "int"
  /\ Len(result.value.v) = parser.max.n
  /\ result.index < Len(stream)

\* The number of items of the longest prefix item (sep item)* of the input at state.
RECURSIVE MoreItems(_, _, _)
MoreItems(item, sep, state) ==
  LET rs == Call(sep, state)
      ri == Call(item, at(state, rs.index))
  IN  IF rs.status /\ ri.status /\ ri.index > state.index
      THEN 1 + MoreItems(item, sep, at(state, ri.index))
      ELSE 0

ListCount(item, sep, state) ==
  LET r == Call(item, state) IN
  IF r.status THEN 1 + MoreItems(item, sep, at(state, r.index)) ELSE 0

\* The values of the first n items of that prefix, and the position after them.
RECURSIVE ListValues(_, _, _, _)
ListValues(item, sep, state, n) ==
  IF n = 0 THEN <<>>
  ELSE LET r == Call(item, state) IN
       <<r.value>>
         \o (IF n = 1 THEN <<>>
             ELSE ListValues(item, sep, at(state, Call(sep, at(state, r.index)).index), n - 1))

RECURSIVE ListEnd(_, _, _, _)
ListEnd(item, sep, state, n) ==
  IF n = 0 THEN state.index
  ELSE LET r == Call(item, state) IN
       IF n = 1 THEN r.index
       ELSE ListEnd(item, sep, at(state, Call(sep, at(state, r.index)).index), n - 1)

\* C8: for min <= max, item.sep_by(sep, min, max) matches the longest prefix
\* item (sep item)* of at most max items, returns the items' values in order, fails
\* if the prefix has fewer than min items, and ends right after the last item, so a
\* separator that no item follows is not consumed; the whole-input parse rejects a
\* leading separator, a trailing separator and adjacent items; max = 0 succeeds
\* with the empty list without an attempt of item.
C8_SepBy ==
  \A p \in SepItems, q \in Seps, mn \in Counts, mx \in Maxes :
    (parser = sep_by(p, q, mn, mx) /\ NumLeq(mn, mx)) =>
      LET s == ParseState(stream, index)
          k == ListCount(p, q, s)
          n == Capped(k, mx)
      IN  /\ op = "call" =>
               /\ result.status <=> k >= mn
               /\ k >= mn =>
                    /\ result.value = List(ListValues(p, q, s, n))
                    /\ result.index = ListEnd(p, q, s, n)
               /\ NumIsZero(mx) => result = Result_success(index, List(<<>>))
          /\ (op = "parse" /\ p = digit /\ q = comma
                /\ stream \in {<<",", "8">>, <<"8", ",">>, <<"8", "8">>}) =>
               outcome.kind = "ParseError"

\* A list is taken up to a separator that no item follows.
C8_Witness ==
  /\ op = "call"
  /\ \E mn \in Counts : parser = sep_by(digit, comma, mn, Inf) /\ mn >= 1
  /\ result.status
  /\ Len(result.value.v) >= 2
  /\ result.index < Len(stream)
  /\ stream[result.index + 1] = ","

\* The list of str values of a list of strings.
StrList(xs) == List([j \in DOMAIN xs |-> Str(xs[j])])

\* C9, as claimed: for every finite list xs of non-empty strings without the
\* separator, item.sep_by(sep).parse(join(xs, sep)) returns exactly xs.
C9_AsClaimed ==
  (op = "parse" /\ parser \in WordGrammars) =>
    \A xs \in WordLists :
      stream = Join(xs, <<",">>) => outcome = Return(StrList(xs), stream)

\* C9, amended: for every non-empty list xs the parse returns exactly xs; for the
\* empty list it returns [""] when item accepts the empty string and [] when it
\* does not; joining the parsed list with the separator gives the stream back.
C9_RoundTrip ==
  (op = "parse" /\ parser \in WordGrammars) =>
    \A xs \in WordLists :
      stream = Join(xs, <<",">>) =>
        /\ outcome.kind = "return"
        /\ Len(xs) > 0 => outcome.value = StrList(xs)
        /\ Len(xs) = 0 =>
             outcome.value = (IF parser = sep_by(word, comma, 0, Inf)
                              THEN StrList(<<<<>>>>) ELSE StrList(<<>>))
        /\ Join(StrsOf(outcome.value.v), <<",">>) = stream

C9_Witness ==
  /\ op = "parse"
  /\ parser = sep_by(word, comma, 0, Inf)
  /\ \E xs \in WordLists : Len(xs) = 3 /\ stream = Join(xs, <<",">>) /\ Len(xs[2]) = 2
  /\ outcome.kind = "return"
  /\ Len(outcome.value.v) = 3

-----------------------------------------------------------------------------
(* Failures, literals, lookahead and relabelling. *)

\* C11: when a parser invoked on the state (stream, index) fails, the furthest
\* position of the failure is at least index; the error that parse and
\* parse_partial raise carries the client's stream and a position from 0 on, and
\* the client's stream and index are what they were before the call.
C11_NoProgressOnFailure ==
  /\ (op = "call" /\ ~result.status) =>
       /\ result.furthest >= index
  /\ (op \in {"parse", "parse_partial"} /\ outcome.kind = "ParseError") =>
       /\ outcome.state.stream = stream
       /\ outcome.state.index >= 0
       /\ outcome.state.index = result.furthest

\* A repetition up to a terminator fails after it consumed input, from a state
\* past the start of the stream.
C11_Witness ==
  /\ op = "call"
  /\ parser.op = "until"
  /\ index > 0
  /\ ~result.status
  /\ result.furthest > index

\* C12: string(s, transform) at position i succeeds exactly when the transform of
\* stream[i:i+len(s)] equals the transform of s (for noop: the slice is s; for
\* lower: the slice has the length of s and agrees with it up to case); it then
\* returns s itself and the next position i + len(s); otherwise it fails with
\* furthest position i and expected set {s}.
C12_LiteralMatch ==
  /\ (op = "call" /\ parser.op = "string") =>
       LET s == parser.s
           text == Slice(stream, index, index + Len(s))
           matches == Transform(parser.transform, text) = Transform(parser.transform, s)
       IN  /\ result.status <=> matches
           /\ matches => (result.value = Str(s) /\ result.index = index + Len(s))
           /\ ~matches => (result.furthest = index /\ result.expected = {s})
           /\ parser.transform = "noop" => (matches <=> text = s)
           /\ parser.transform = "lower" =>
                (matches <=> /\ Len(text) = Len(s)
                             /\ \A k \in 1 .. Len(s) : LowerChar(text[k]) = LowerChar(s[k]))
  /\ (op = "parse" /\ parser = string2(Cat, "lower")) =>
       /\ stream \in CatStreams \ {<<"d", "o", "g">>} => outcome = Return(Str(Cat), stream)
       /\ stream = <<"d", "o", "g">> => outcome = ParseError({Cat}, start(stream))

\* A literal matches text of another case, past the start of the stream.
C12_Witness ==
  /\ op = "call"
  /\ parser.op = "string"
  /\ parser.transform = "lower"
  /\ index > 0
  /\ result.status
  /\ Len(parser.s) = 2
  /\ Slice(stream, index, index + 2) # parser.s
  /\ result.value = Str(parser.s)

\* The literals of an alternation of string parsers.
RECURSIVE LiteralsOf(_)
LiteralsOf(p) ==
  IF p.op = "string" THEN {p.s} ELSE LiteralsOf(p.self) \cup LiteralsOf(p.other)

IsPrefix(s, t) == Len(s) <= Len(t) /\ SubSeq(t, 1, Len(s)) = s

\* C13: string_from(candidates) at a position returns the longest candidate that
\* is a prefix of the remaining input and ends right after it; it fails exactly
\* when no candidate is a prefix, and then the expected set is the set of all the
\* candidates, at the position of the attempt.
C13_StringFrom ==
  /\ op = "call" =>
       LET candidates == LiteralsOf(parser)
           rest == Slice(stream, index, Len(stream))
           prefixes == {c \in candidates : IsPrefix(c, rest)}
       IN  /\ result.status <=> prefixes # {}
           /\ prefixes # {} =>
                LET longest == CHOOSE c \in prefixes : \A d \in prefixes : Len(d) <= Len(c)
                IN  result.value = Str(longest) /\ result.index = index + Len(longest)
           /\ prefixes = {} => (result.furthest = index /\ result.expected = candidates)
  /\ (op = "parse" /\ parser = titles) =>
       IF stream = <<"f", "o", "o">>
       THEN outcome = ParseError({Mr, MrDot, Mrs, MrsDot}, start(stream))
       ELSE outcome = Return(Str(stream), stream)

\* Three candidates are prefixes of the rest of the input and the longest is returned.
C13_Witness ==
  /\ op = "call"
  /\ index > 0
  /\ Cardinality({c \in LiteralsOf(parser) : IsPrefix(c, Slice(stream, index, Len(stream)))}) = 3
  /\ result.status
  /\ Len(result.value.v) = 2

\* C14: p.should_fail(label) on a state succeeds exactly when p fails there; it
\* then ends at the state's own index and its value is the failure Result of p;
\* when p succeeds it fails with furthest position the state's index and expected
\* set {label}.
C14_ShouldFail ==
  /\ (op = "call" /\ parser.op = "should_fail") =>
       LET r == Call(parser.self, ParseState(stream, index)) IN
       /\ result.status <=> ~r.status
       /\ ~r.status =>
            /\ result.index = index
            /\ result.value.v = r
            /\ ~result.value.v.status
       /\ r.status =>
            /\ result.furthest = index
            /\ result.expected = {parser.description}
  /\ (op = "parse_partial" /\ parser = not_a_digit) =>
       /\ stream = <<"a">> =>
            outcome = Return(Tuple(<<[t |-> "result", v |-> Result(FALSE, -1, None, 0, {DigitLabel})],
                                     Str(<<"a">>)>>), stream)
       /\ stream = <<"1">> => outcome = ParseError({NotADigit}, start(stream))

\* The child consumed input before it failed, and should_fail ends where it began.
C14_Witness ==
  /\ op = "call"
  /\ parser.op = "should_fail"
  /\ index > 0
  /\ result.status
  /\ result.value.v.furthest > index
  /\ result.index = index

\* C15: when p fails on a state, p.desc(label) fails with expected set {label}
\* and furthest position the state's index, whatever labels and position the
\* failure of p had; when p succeeds, p.desc(label) returns the Result of p.
C15_Desc ==
  (op = "call" /\ parser.op = "desc") =>
    LET r == Call(parser.self, ParseState(stream, index)) IN
    /\ r.status => result = r
    /\ ~r.status =>
         /\ ~result.status
         /\ result.expected = {parser.description}
         /\ result.furthest = index

\* The child failed past the position of the attempt, with labels of its own.
C15_Witness ==
  /\ op = "call"
  /\ parser.op = "desc"
  /\ index > 0
  /\ ~result.status
  /\ Call(parser.self, ParseState(stream, index)).furthest > index
  /\ parser.description \notin Call(parser.self, ParseState(stream, index)).expected

\* C16: peek(p) on a state succeeds exactly when p succeeds there, with the value
\* of p and the state's own index as next position, so that parse_partial leaves
\* the whole input as the remainder; when p fails, peek(p) returns the failure of p.
C16_Peek ==
  /\ (op = "call" /\ parser.op = "peek") =>
       LET r == Call(parser.parser, ParseState(stream, index)) IN
       /\ result.status <=> r.status
       /\ r.status => (result.value = r.value /\ result.index = index)
       /\ ~r.status => result = r
  /\ (op = "parse_partial" /\ parser.op = "peek" /\ outcome.kind = "return") =>
       outcome.value.v[2] = Str(stream)
  /\ (op = "parse_partial" /\ parser = peek(any_char) /\ stream = <<"a", "b", "c">>) =>
       outcome = Return(Tuple(<<Str(<<"a">>), Str(stream)>>), stream)
  /\ (op = "parse" /\ parser = peek(digit) /\ stream = <<"a">>) =>
       outcome = ParseError({DigitLabel}, start(stream))

\* The child matched input, and peek ends where it began.
C16_Witness ==
  /\ op = "call"
  /\ parser.op = "peek"
  /\ index > 0
  /\ result.status
  /\ Call(parser.parser, ParseState(stream, index)).index > index + 1
  /\ result.index = index

-----------------------------------------------------------------------------
(* Forward references. *)

\* C17: with _parser a forward reference to parser = digits | string("(") >>
\* _parser.sep_by(string(" ")) << string(")"), the parse of the text of every
\* nested integer list of bounded depth returns the nested list it is the text of, and
\* "(0 1 (2 3))" gives [0, 1, [2, 3]]; invoked on a state, the forward reference
\* returns the Result of its target on that state.
C17_ForwardReference ==
  /\ op = "parse" =>
       /\ stream \in NestedTexts =>
            /\ outcome.kind = "return"
            /\ Render(outcome.value) = stream
       /\ stream = nested_example => outcome = Return(nested_result, stream)
  /\ (op = "call" /\ parser = _parser) =>
       result = Call(recursive_parser, ParseState(stream, index))

\* A list in a list is parsed through the forward reference.
C17_Witness ==
  /\ op = "parse"
  /\ parser = recursive_parser
  /\ stream = nested_example
  /\ outcome.kind = "return"
  /\ outcome.value.v[3] = List(<<IntVal(2), IntVal(3)>>)

-----------------------------------------------------------------------------
(* Functions wrapped by Parser. *)

\* C18: in custom | other with custom a function wrapped by Parser, when the
\* parser applied by statement k of the function fails, statements 1 to k are the
\* only ones executed, the call of custom returns the failure Result of that
\* parser, no exception leaves the alternation, and the alternation's Result is
\* that of other on the original state, aggregated with the failure; xy |
\* string("z") on "z" returns "z".
C18_EarlyExit ==
  /\ outcome.kind # "ResultAsException"
  /\ (op = "call" /\ Len(locals.executed) <= Len(parser.self.wrapped_fn.body)) =>
       LET k == Len(locals.executed)
           failed == Call(parser.self.wrapped_fn.body[k], locals.s)
           other_result == Call(parser.other, ParseState(stream, index))
       IN  /\ locals.executed = [j \in 1 .. k |-> j]
           /\ ~failed.status
           /\ locals.ended = Returned(failed)
           /\ outcome = NoOutcome
           /\ result = aggregate(other_result, failed)
           /\ result.status = other_result.status
           /\ result.index = other_result.index
           /\ result.value = other_result.value
  /\ (op = "call" /\ parser = __or__(Parser(xy), string(<<"z">>)) /\ stream = <<"z">>
        /\ index = 0) =>
       (result.status /\ result.value = Str(<<"z">>) /\ result.index = 1)

\* The second statement failed after the first one consumed input, and the other
\* alternative matched at the original position.
C18_Witness ==
  /\ op = "call"
  /\ Len(locals.executed) = 2
  /\ ~locals.ended.result.status
  /\ locals.s.index > index
  /\ result.status
  /\ result.index = index + 1
  /\ result.furthest > index

-----------------------------------------------------------------------------
(* Repetitions that do not end. *)

\* C19, as claimed: p.many() and p.until(other) return a Result on every finite
\* input, also for a child that succeeds without consuming input.  The child and
\* other are functions of the state, and the states of one call differ in their
\* index only, which never decreases; once times has reached min the loop's test
\* depends on the state alone.  A loop without a largest count that then meets a
\* state twice meets it for ever, so a call that returns has gone round its loop
\* at most min times and then once for every character from where it began.
C19_Totality ==
  op = "running" => locals.times <= parser.min + Len(stream) - index

-----------------------------------------------------------------------------
(* Alternation is associative. *)

\* (A | B) | C regrouped as A | (B | C), and the other way round.
Regrouped(p) ==
  IF p.self.op = "or"
  THEN __or__(p.self.self, __or__(p.self.other, p.other))
  ELSE __or__(__or__(p.self, p.other.self), p.other.other)

\* C20: (A | B) | C and A | (B | C) return identical Results on every state,
\* furthest position and expected set included, and so parse and parse_partial
\* of the two end alike.
C20_Associativity ==
  /\ op \in {"call", "parse_partial"} =>
       result = Call(Regrouped(parser), ParseState(stream, index))
  /\ op = "parse" => outcome = parse(Regrouped(parser), stream)
  /\ op = "parse_partial" => outcome = parse_partial(Regrouped(parser), stream)

\* (A | B) | C is called where A and B fail, one of them past the position of the
\* call, and C succeeds: the Result is C's with the furthest failure of A and B.
C20_Witness ==
  /\ op = "call"
  /\ parser.self.op = "or"
  /\ LET state == ParseState(stream, index)
         resA == Call(parser.self.self, state)
         resB == Call(parser.self.other, state)
         resC == Call(parser.other, state)
     IN  /\ ~resA.status /\ ~resB.status /\ resC.status
         /\ resA.furthest > index
         /\ resB.furthest = index
         /\ resC.furthest < resA.furthest
         /\ result.status
         /\ result.furthest = resA.furthest
         /\ result.expected = resA.expected


-----------------------------------------------------------------------------
(* success(v) is the identity of sequencing. *)

\* The parser P of success(v) >> P and of P << success(v).
UnitOperand(p) ==
  IF p.bind_fn.map_fn.name = "snd" THEN p.self.other ELSE p.self.self

\* C21: (success(v) >> P)(s) and (P << success(v))(s) are the Result P(s), in
\* status, next position, value, furthest position and expected set; parse and
\* parse_partial of them end as those of P.
C21_SequencingIdentity ==
  /\ op \in {"call", "parse_partial"} =>
       result = Call(UnitOperand(parser), ParseState(stream, index))
  /\ op = "parse" => outcome = parse(UnitOperand(parser), stream)
  /\ op = "parse_partial" => outcome = parse_partial(UnitOperand(parser), stream)

\* P << success(v) is called where P succeeds past the position of the call with
\* the memory of a failure further on, and the Result holds all of it.
C21_Witness ==
  /\ op = "call"
  /\ parser.bind_fn.map_fn.name = "fst"
  /\ result.status
  /\ result.index > index
  /\ result.furthest > result.index
  /\ result.expected # {}


-----------------------------------------------------------------------------
(* gather_perm and the orderings of the fields. *)

\* The orderings of the fields of a dataclass.
Orderings(datatype) ==
  {o \in [1 .. Len(datatype) -> 1 .. Len(datatype)] :
     \A i, j \in 1 .. Len(datatype) : i # j => o[i] # o[j]}

\* The field parsers run in sequence in the ordering o from its k-th, each from
\* where the one before it ended: the position and the values by field if all
\* of them succeed.
RECURSIVE InSequence(_, _, _, _, _)
InSequence(datatype, o, k, state, parsed_fields) ==
  IF k > Len(datatype)
  THEN [status |-> TRUE, index |-> state.index, value |-> Instance(parsed_fields)]
  ELSE LET res == Call(datatype[o[k]].parser, state) IN
       IF ~res.status THEN [status |-> FALSE]
       ELSE InSequence(datatype, o, k + 1, at(state, res.index),
                       [parsed_fields EXCEPT ![o[k]] = res.value])

Sequenced(datatype, o, state) ==
  InSequence(datatype, o, 1, state, [i \in 1 .. Len(datatype) |-> None])

\* C22, as claimed: gather_perm(datatype) succeeds on every input on which some
\* ordering of the field parsers, run in sequence each once, succeeds; and the
\* record it returns holds for each field the value its parser returned in such
\* a run, whichever the order of the fields in the input.
C22_Permutation ==
  op = "call" =>
    LET state == ParseState(stream, index)
        runs == {Sequenced(parser.datatype, o, state) : o \in Orderings(parser.datatype)}
    IN  /\ (\E run \in runs : run.status) => result.status
        /\ result.status =>
             \E run \in runs :
               run.status /\ run.index = result.index /\ run.value = result.value


-----------------------------------------------------------------------------
(* seq: an error at construction, a tuple in argument order. *)

\* The parsers from the k-th run left to right, each from where the one before
\* it ended: whether all succeed, where the last one ends, and their values.
RECURSIVE LeftToRight(_, _, _, _)
LeftToRight(parsers, k, state, values) ==
  IF k > Len(parsers) THEN [status |-> TRUE, index |-> state.index, values |-> values]
  ELSE LET res == Call(parsers[k], state) IN
       IF ~res.status THEN [status |-> FALSE, index |-> -1, values |-> values]
       ELSE LeftToRight(parsers, k + 1, at(state, res.index), Append(values, res.value))

\* C23: seq() with no parsers raises ValueError where it is called: no parser
\* comes to be and no Result, success or failure, is produced; seq(p1, ..., pn)
\* succeeds where the children succeed one after the other, and then yields the
\* tuple of their values in argument order and the last one's next position.
C23_Seq ==
  /\ (op # "init" /\ locals.parsers = <<>>) =>
       /\ op = "raised"
       /\ outcome.kind = "ValueError"
       /\ parser.op = "none"
       /\ result = NoResult
  /\ (op # "init" /\ locals.parsers # <<>>) => op # "raised" /\ parser.op = "bind"
  /\ op = "call" =>
       LET run == LeftToRight(locals.parsers, 1, ParseState(stream, index), <<>>) IN
       /\ result.status = run.status
       /\ result.status =>
            /\ result.index = run.index
            /\ result.value = Tuple(run.values)
  /\ (op = "parse" /\ locals.parsers = a1b2a) =>
       /\ stream = <<"a", "1", "b", "2", "a">> =>
            outcome = Return(Tuple(<<Str(<<"a">>), IntVal(1), Str(<<"b">>), IntVal(2),
                                     Str(<<"a">>)>>), stream)
       /\ stream = <<"a", "1", "b", "2", "3">> =>
            outcome = Return(Tuple(<<Str(<<"a">>), IntVal(1), Str(<<"b">>), IntVal(2),
                                     IntVal(3)>>), stream)

\* seq was called with no parsers and has raised.
C23_Witness ==
  /\ op = "raised"
  /\ locals.parsers = <<>>
  /\ outcome.kind = "ValueError"

\* seq of three parsers is called where each of them consumes input.
C23_WitnessTuple ==
  /\ op = "call"
  /\ Len(locals.parsers) = 3
  /\ result.status
  /\ index = 0
  /\ result.index = 3
  /\ result.value = Tuple(<<Str(<<"a">>), Str(<<"b">>), Str(<<"a">>)>>)


-----------------------------------------------------------------------------
(* line_info_at *)

\* The positions before i that hold a newline.
NewlinesBefore(s, i) == {k \in 1 .. i : s[k] = "\n"}

\* C24: for 0 <= i <= len(buffer) line_info_at returns (line, col), line the
\* number of newlines in buffer[0:i] and col the number of characters between
\* the last of them (or the start of the buffer) and i; for i > len(buffer) it
\* raises ValueError.  text of test_line_info_at gives the pairs of the test.
C24_LineInfoAt ==
  op = "line_info_at" =>
    /\ index > Len(stream) => locals.ended = LineError("ValueError")
    /\ index <= Len(stream) =>
         \E line, col \in 0 .. Len(stream) :
           /\ locals.ended = LineCol(line, col)
           /\ line = Cardinality(NewlinesBefore(stream, index))
           /\ col <= index
           /\ \A k \in index - col + 1 .. index : stream[k] # "\n"
           /\ col < index => stream[index - col] = "\n"
    /\ stream = abc_def =>
         /\ index = 0 => locals.ended = LineCol(0, 0)
         /\ index = 2 => locals.ended = LineCol(0, 2)
         /\ index = 3 => locals.ended = LineCol(0, 3)
         /\ index = 4 => locals.ended = LineCol(1, 0)
         /\ index = 7 => locals.ended = LineCol(1, 3)
         /\ index = 8 => locals.ended = LineError("ValueError")

\* The position is on the third line of a text, one character into it.
C24_Witness ==
  /\ op = "line_info_at"
  /\ locals.ended = LineCol(2, 1)
  /\ index < Len(stream)


-----------------------------------------------------------------------------
(* Result.aggregate *)

\* The failure context of a Result.
Context(r) == [furthest |-> r.furthest, expected |-> r.expected]

\* C25: a.aggregate(b) keeps a's status, next position and value; its failure
\* context is a's if a.furthest > b.furthest, b's if a.furthest < b.furthest,
\* and a's furthest with the union of the expected sets if they are equal;
\* a.aggregate(None) is a; a.aggregate(b) and b.aggregate(a) have the same
\* failure context.
C25_Aggregate ==
  /\ op = "aggregate" =>
       LET a == locals.a
           b == locals.b
       IN  /\ result.status = a.status
           /\ result.index = a.index
           /\ result.value = a.value
           /\ a.furthest > b.furthest => Context(result) = Context(a)
           /\ a.furthest < b.furthest => Context(result) = Context(b)
           /\ a.furthest = b.furthest =>
                Context(result) =
                  [furthest |-> a.furthest, expected |-> a.expected \cup b.expected]
           /\ Context(result) = Context(aggregate(b, a))
  /\ op = "aggregate_none" => result = locals.a

\* A success and a failure that stopped at the same position, with different
\* labels, are aggregated: the Result is the success with both labels.
C25_Witness ==
  /\ op = "aggregate"
  /\ locals.a.status
  /\ ~locals.b.status
  /\ locals.a.furthest = locals.b.furthest
  /\ locals.a.expected = {<<"a">>}
  /\ locals.b.expected = {<<"b">>}
  /\ result.status
  /\ result.expected = {<<"a">>, <<"b">>}


-----------------------------------------------------------------------------
(* bind *)

\* The failure context two Results leave together: the further position and the
\* labels expected there.
Merged(r1, r2) ==
  [furthest |-> IF r1.furthest >= r2.furthest THEN r1.furthest ELSE r2.furthest,
   expected |-> (IF r1.furthest >= r2.furthest THEN r1.expected ELSE {})
                  \cup (IF r2.furthest >= r1.furthest THEN r2.expected ELSE {})]

\* C26: p.bind(f) on s runs p on s.  If p fails, the call returns p's failure and
\* f is not called.  If p succeeds with value v and next position i, f is called
\* once, with v, and the parser it returns is run from i over the same buffer:
\* the call returns that parser's status, value and next position, with its
\* failure context aggregated with that of p's Result.  Taken step by step, the
\* call ends as bound_parser taken at once.
C26_Bind ==
  op = "call" =>
    LET state == ParseState(stream, index)
        r1 == Call(parser.self, state)
        r2 == Call(BindFn(parser.bind_fn, r1.value), ParseState(stream, r1.index))
    IN  /\ ~r1.status => result = r1 /\ locals.piped = <<>>
        /\ r1.status =>
             /\ locals.piped = <<r1.value>>
             /\ result.status = r2.status
             /\ result.index = r2.index
             /\ result.value = r2.value
             /\ Context(result) = Merged(r2, r1)
        /\ result = Call(parser, state)

\* p succeeds with the memory of a failure, f is called with its value, and the
\* parser f returns fails at the position of that failure: the call fails there,
\* expecting the labels of both.
C26_Witness ==
  /\ op = "call"
  /\ Len(locals.piped) = 1
  /\ ~result.status
  /\ LET r1 == Call(parser.self, ParseState(stream, index)) IN
     /\ r1.status
     /\ r1.index > index
     /\ r1.expected # {}
     /\ result.furthest = r1.furthest
     /\ r1.expected \subseteq result.expected
     /\ result.expected # r1.expected


-----------------------------------------------------------------------------
(* Positions stay inside the buffer. *)

\* The calls made while p runs on state, that of p included: each parser with
\* the ParseState it is given.
RECURSIVE Calls(_, _)

RECURSIVE times_calls(_, _, _, _)
times_calls(self, the_max, state, n) ==
  IF NumLess(n, the_max)
  THEN LET r == Call(self, state) IN
       Calls(self, state)
         \cup (IF r.status THEN times_calls(self, the_max, at(state, r.index), n + 1) ELSE {})
  ELSE {}

RECURSIVE until_calls(_, _, _, _, _, _)
until_calls(self, other, min, max, state, n) ==
  Calls(other, state)
    \cup (IF (Call(other, state).status /\ n >= min) \/ NumGeq(n, max) THEN {}
          ELSE LET r == Call(self, state) IN
               Calls(self, state)
                 \cup (IF r.status
                       THEN until_calls(self, other, min, max, at(state, r.index), n + 1)
                       ELSE {}))

Calls(p, state) ==
  {[parser |-> p, state |-> state]}
    \cup CASE p.op \in {"string", "test_char", "eof", "fail", "success", "regex"} -> {}
           [] p.op = "bind" ->
                LET r1 == Call(p.self, state) IN
                Calls(p.self, state)
                  \cup (IF r1.status
                        THEN Calls(BindFn(p.bind_fn, r1.value), at(state, r1.index))
                        ELSE {})
           [] p.op = "or" ->
                Calls(p.self, state)
                  \cup (IF Call(p.self, state).status THEN {} ELSE Calls(p.other, state))
           [] p.op = "and" ->
                LET r1 == Call(p.self, state) IN
                Calls(p.self, state)
                  \cup (IF r1.status
                        THEN Calls(p.other, ParseState(state.stream, r1.index))
                        ELSE {})
           [] p.op = "times" -> times_calls(p.self, p.the_max, state, 0)
           [] p.op = "until" -> until_calls(p.self, p.other, p.min, p.max, state, 0)
           [] p.op \in {"desc", "should_fail"} -> Calls(p.self, state)
           [] p.op = "peek" -> Calls(p.parser, state)

\* C27, as claimed: every ParseState given to a parser during a parse that began
\* at a position of the buffer has 0 <= index <= len(buffer), and every success
\* returned on a state at index i has a next position n with i <= n <= len(buffer).
C27_Positions ==
  op \in {"call", "parse_partial"} =>
    \A c \in Calls(parser, ParseState(stream, index)) :
      /\ 0 <= c.state.index
      /\ c.state.index <= Len(stream)
      /\ LET r == Call(c.parser, c.state) IN
         r.status => c.state.index <= r.index /\ r.index <= Len(stream)


-----------------------------------------------------------------------------
(* The failure of until and the failures of its children. *)

\* The failed Results of the calls of other and of self that until_parser makes
\* from its n-th iteration on.
RECURSIVE until_failures(_, _, _, _, _, _)
until_failures(self, other, min, max, state, n) ==
  LET res == Call(other, state)
      result_ == Call(self, state)
  IN  (IF res.status THEN {} ELSE {res})
        \cup (IF (res.status /\ n >= min) \/ NumGeq(n, max) THEN {}
              ELSE IF result_.status
              THEN until_failures(self, other, min, max, at(state, result_.index), n + 1)
              ELSE {result_})

\* C28, as claimed: a failure of p.until(other) reports the furthest position
\* that a failed attempt of p or of other reached during its iterations, with
\* the labels expected at that position.
C28_UntilAggregates ==
  (op = "call" /\ parser.op = "until" /\ ~result.status) =>
    LET failures == until_failures(parser.self, parser.other, parser.min, parser.max,
                                   ParseState(stream, index), 0)
        reached == SetMax({r.furthest : r \in failures})
    IN  failures # {} =>
          /\ result.furthest = reached
          /\ result.expected = UNION {r.expected : r \in {f \in failures : f.furthest = reached}}


-----------------------------------------------------------------------------
(* The number of values of times. *)

\* C29, as claimed: whatever the order of min and max, a success of
\* p.times(min, max) holds at least min and at most max values.
C29_AsClaimed ==
  (op = "call" /\ parser.op = "times" /\ result.status) =>
    /\ Len(result.value.v) >= parser.min
    /\ NumLeq(Len(result.value.v), parser.the_max)

\* C29, amended: a success of p.times(min, max) holds at most max values; it
\* holds at least min values when min <= max, and exactly max values, fewer
\* than min, when max < min.
C29_CountBounds ==
  (op = "call" /\ parser.op = "times" /\ result.status) =>
    /\ NumLeq(Len(result.value.v), parser.the_max)
    /\ NumLeq(parser.min, parser.the_max) => Len(result.value.v) >= parser.min
    /\ ~NumLeq(parser.min, parser.the_max) => Len(result.value.v) = parser.the_max.n

\* times with max below min succeeds after max matches of the child.
C29_Witness ==
  /\ op = "call"
  /\ parser.op = "times"
  /\ result.status
  /\ ~NumLeq(parser.min, parser.the_max)
  /\ parser.the_max.n > 0
  /\ Len(result.value.v) = parser.the_max.n
  /\ Len(result.value.v) < parser.min


-----------------------------------------------------------------------------
(* Results are well formed. *)

\* A failure names a position and a label; a success holds no failure context
\* or a position with a label.
WellFormed(r) ==
  IF r.status
  THEN \/ r.furthest = -1 /\ r.expected = {}
       \/ r.furthest >= 0 /\ r.expected # {}
  ELSE r.furthest >= 0 /\ r.expected # {}

\* C30: every Result that a parser or one of the parsers it calls returns on a
\* state with index >= 0 is well formed: a failure has furthest >= 0 and a label,
\* a success has furthest -1 and no label or furthest >= 0 and a label; so a
\* ParseError names a label.
C30_WellFormed ==
  /\ op \in {"call", "parse_partial"} =>
       \A c \in Calls(parser, ParseState(stream, index)) : WellFormed(Call(c.parser, c.state))
  /\ op = "parse" =>
       \A c \in Calls(skip(parser, eof), start(stream)) : WellFormed(Call(c.parser, c.state))
  /\ outcome.kind = "ParseError" => outcome.expected # {} /\ outcome.state.index >= 0

\* A parser called past the start succeeds with the memory of a failure further
\* on than where it ends.
C30_Witness ==
  /\ op = "call"
  /\ index > 0
  /\ result.status
  /\ result.furthest > result.index
  /\ result.expected # {}

====
